---- MODULE Spec2Model ----
(***************************************************************************)
(* A model of the paginated knowledge-graph storage                        *)
(* (src/storage/PaginatedGraphStorage.ts).                                 *)
(*                                                                         *)
(* The three MongoDB collections are sets of documents.  A string is a     *)
(* sequence of one-character strings, so that joining and lower-casing are *)
(* computed and not assumed.  An optional value of the TypeScript types is *)
(* a sequence of length 0 (absent) or 1 (present).  A Date is a natural    *)
(* number read from the variable clock.                                    *)
(***************************************************************************)
EXTENDS Integers, Sequences, FiniteSets, TLC

VARIABLES
    entities,     \* entitiesCollection: set of entity documents
    relations,    \* relationsCollection: set of relation documents
    index,        \* indexCollection: set of per-user summary documents
    isConnected,  \* PaginatedGraphStorage.isConnected
    clock,        \* the value new Date() returns
    immediates,   \* setImmediate callbacks scheduled and not yet started
    refreshes,    \* summary refreshes between generateSummary and replaceOne
    calls,        \* per user: the handler suspended between two store calls
    lastOp,       \* history: the store call or handler that took the last step
    nOps,         \* history: number of handler invocations so far
    cleared,      \* history: users whose clearForUser returned and who have
                  \* invoked no operation since
    traversals,   \* per user: the getConnectedEntities call in its while loop
    connects,     \* the connect() calls in progress and what they have called
    files,        \* JsonUserStorage: per user, the content of the data file,
                  \* of the temp file and of the backup file
    jsonCalls,    \* JsonUserStorage: per user, the saveForUser call between
                  \* two file-system calls
    collection,   \* MongodbUserStorage.collection: set of documents
    mongoIsConnected, \* MongodbUserStorage.isConnected
    mongoConnect, \* the MongodbUserStorage.connect() call in its retry loop
    flatOp,       \* history: the last step of a flat storage
    saved,        \* history: per user, what the last completed save wrote,
                  \* until the next save or clear of the user begins
    env,          \* process.env
    storage       \* what StorageFactory.createAutoDetected returned last

\* The variables of the paginated graph storage
graphVars == <<entities, relations, index, isConnected, clock, immediates,
               refreshes, calls, lastOp, nOps, cleared, traversals, connects>>

\* The variables of the flat storages and of the factory
flatVars == <<files, jsonCalls, collection, mongoIsConnected, mongoConnect,
              flatOp, saved, env, storage>>

vars == <<entities, relations, index, isConnected, clock, immediates,
          refreshes, calls, lastOp, nOps, cleared, traversals, connects,
          files, jsonCalls, collection, mongoIsConnected, mongoConnect,
          flatOp, saved, env, storage>>

----------------------------------------------------------------------------
(* Bounds of the model *)

MaxOps == 2
MaxClock == 2
MaxPending == 4
MaxRefreshing == 1
MaxBatch == 2
MaxDepth == 1
MaxEdges == 3
MaxCallers == 3
MaxWritten == 2

----------------------------------------------------------------------------
(* Optional values *)

Absent == <<>>
Some(x) == <<x>>
IsSome(m) == Len(m) = 1
Get(m) == m[1]
\* JavaScript's (m || d) for an optional m whose present values are truthy
OrElse(m, d) == IF IsSome(m) THEN Get(m) ELSE d

----------------------------------------------------------------------------
(* Strings *)

\* String.prototype.toLowerCase on one character
LowerChar(c) ==
    CASE c = "A" -> "a"
      [] c = "B" -> "b"
      [] c = "N" -> "n"
      [] c = "O" -> "o"
      [] c = "P" -> "p"
      [] c = "T" -> "t"
      [] c = "Z" -> "z"
      [] OTHER -> c

toLowerCase(s) == [i \in 1..Len(s) |-> LowerChar(s[i])]

\* Array.prototype.join
RECURSIVE join(_, _)
join(parts, sep) ==
    IF Len(parts) = 0 THEN <<>>
    ELSE IF Len(parts) = 1 THEN parts[1]
    ELSE parts[1] \o sep \o join(Tail(parts), sep)

\* A mutant of generateSearchText: a caller-supplied searchText is kept.
generateSearchTextKeepsSupplied(entity) ==
    IF IsSome(entity.searchText) THEN Get(entity.searchText)
    ELSE toLowerCase(join(<<entity.name, entity.entityType>>
                          \o entity.observations
                          \o OrElse(entity.tags, <<>>), <<" ">>))

generateSearchText(entity) ==
    toLowerCase(join(<<entity.name, entity.entityType>>
                     \o entity.observations
                     \o OrElse(entity.tags, <<>>), <<" ">>))

generateRelationId(relation) ==
    relation.fromEntityId \o <<"-">> \o relation.relationType
        \o <<"-">> \o relation.toEntityId

----------------------------------------------------------------------------
(* Inputs *)

Users == {"u1", "u2"}
EntityIds == {<<"A">>, <<"B">>}
EntityTypes == {<<"P">>, <<"q">>}
RelationTypes == {<<"k">>, <<"w">>}

\* metadata a caller may supply: created in the past, updatedAt in the future
SuppliedEntityMetadata ==
    [createdAt |-> Some(0), updatedAt |-> Some(MaxClock + 5), source |-> Some("import")]

\* Values of the Entity type (lines 9-22): tags, metadata and searchText are
\* optional.  An entity with tags is of type q, one without of type P; the
\* caller who supplies metadata supplies a searchText too.
EntityInputs ==
    { [entityId |-> id, name |-> <<"N">> \o id,
       entityType |-> IF IsSome(g) THEN <<"q">> ELSE <<"P">>,
       observations |-> << <<"O", "b">> >>, metadata |-> m, tags |-> g,
       searchText |-> IF IsSome(m) THEN Some(<<"Z">>) ELSE Absent] :
        id \in EntityIds,
        m \in {Absent, Some(SuppliedEntityMetadata)},
        g \in {Absent, Some(<< <<"T">> >>)} }

SuppliedRelationMetadata ==
    [createdAt |-> Some(0), source |-> Some("import"), confidence |-> Absent]

\* Values of the Relation type (lines 24-35): the caller supplies relationId;
\* strength and metadata are optional.  A relation of type k comes with a
\* relationId of the caller's, a strength and metadata; one of type w with
\* the relationId generateRelationId gives and nothing optional.
RelationInputs ==
    { [relationId |-> IF ty = <<"k">> THEN <<"x">>
                      ELSE f \o <<"-">> \o ty \o <<"-">> \o t,
       fromEntityId |-> f, toEntityId |-> t, relationType |-> ty,
       strength |-> IF ty = <<"k">> THEN Some(2) ELSE Absent,
       metadata |-> IF ty = <<"k">> THEN Some(SuppliedRelationMetadata) ELSE Absent] :
        f \in EntityIds, t \in EntityIds, ty \in RelationTypes }

----------------------------------------------------------------------------
(* Documents *)

\* A mutant of entityMetadata: the spread of the caller's metadata is left out.
entityMetadataNoSpread(entity, now) ==
    [source |-> Absent,
     updatedAt |-> now,
     createdAt |-> IF IsSome(entity.metadata)
                   THEN OrElse(Get(entity.metadata).createdAt, now) ELSE now]

\* { ...entity.metadata, updatedAt: now, createdAt: entity.metadata?.createdAt || now }
entityMetadata(entity, now) ==
    [source |-> IF IsSome(entity.metadata) THEN Get(entity.metadata).source ELSE Absent,
     updatedAt |-> now,
     createdAt |-> IF IsSome(entity.metadata)
                   THEN OrElse(Get(entity.metadata).createdAt, now) ELSE now]

\* The document saveEntity and saveEntitiesBatch store for an entity.
entityDocument(userId, entity, now) ==
    [userId |-> userId,
     entityId |-> entity.entityId,
     name |-> entity.name,
     entityType |-> entity.entityType,
     observations |-> entity.observations,
     metadata |-> entityMetadata(entity, now),
     tags |-> OrElse(entity.tags, <<>>),
     searchText |-> generateSearchText(entity)]

\* { ...relation.metadata, createdAt: relation.metadata?.createdAt || now }
relationMetadata(relation, now) ==
    [source |-> IF IsSome(relation.metadata) THEN Get(relation.metadata).source ELSE Absent,
     confidence |-> IF IsSome(relation.metadata)
                    THEN Get(relation.metadata).confidence ELSE Absent,
     createdAt |-> IF IsSome(relation.metadata)
                   THEN OrElse(Get(relation.metadata).createdAt, now) ELSE now]

\* The document saveRelation stores for a relation.
relationDocument(userId, relation, now) ==
    [userId |-> userId,
     relationId |-> relation.relationId,
     fromEntityId |-> relation.fromEntityId,
     toEntityId |-> relation.toEntityId,
     relationType |-> relation.relationType,
     strength |-> OrElse(relation.strength, 1),
     metadata |-> relationMetadata(relation, now)]

documentToEntity(doc) ==
    [entityId |-> doc.entityId,
     name |-> doc.name,
     entityType |-> doc.entityType,
     observations |-> doc.observations,
     metadata |-> Some([createdAt |-> Some(doc.metadata.createdAt),
                        updatedAt |-> Some(doc.metadata.updatedAt),
                        source |-> doc.metadata.source]),
     tags |-> Some(doc.tags),
     searchText |-> Some(doc.searchText)]

documentToRelation(doc) ==
    [relationId |-> doc.relationId,
     fromEntityId |-> doc.fromEntityId,
     toEntityId |-> doc.toEntityId,
     relationType |-> doc.relationType,
     strength |-> Some(doc.strength),
     metadata |-> Some([createdAt |-> Some(doc.metadata.createdAt),
                        source |-> doc.metadata.source,
                        confidence |-> doc.metadata.confidence])]

----------------------------------------------------------------------------
(* Store calls *)

\* Collection.replaceOne(filter, doc, {upsert: true}): hits is the set of
\* documents the filter matches; the first of them is replaced, and doc is
\* inserted when there is none.
replaceOne(coll, hits, doc) ==
    IF hits = {} THEN coll \cup {doc}
    ELSE (coll \ {CHOOSE d \in hits : TRUE}) \cup {doc}

\* Collection.deleteOne(filter)
deleteOne(coll, hits) ==
    IF hits = {} THEN coll ELSE coll \ {CHOOSE d \in hits : TRUE}

\* A mutant of saveEntityFilter: the filter also names the entity type.
saveEntityFilterWithType(userId, entity, d) ==
    d.userId = userId /\ d.entityId = entity.entityId
        /\ d.entityType = entity.entityType

\* A mutant of saveEntityFilter: the filter holds userId alone, so that a
\* save replaces a document of the user whatever its entityId.
saveEntityFilterUserOnly(userId, entity, d) == d.userId = userId

\* { userId, entityId: entity.entityId }
saveEntityFilter(userId, entity, d) ==
    d.userId = userId /\ d.entityId = entity.entityId

\* A mutant of saveRelationFilter: the filter also names the relation type.
saveRelationFilterWithType(userId, relation, d) ==
    d.fromEntityId = relation.fromEntityId /\ d.toEntityId = relation.toEntityId
        /\ d.relationType = relation.relationType

\* { fromEntityId: relation.fromEntityId, toEntityId: relation.toEntityId }:
\* the filter does not name userId.
saveRelationFilter(userId, relation, d) ==
    d.fromEntityId = relation.fromEntityId /\ d.toEntityId = relation.toEntityId

\* A mutant of touchesFilter: only the relations leaving the entity match.
touchesFilterFromOnly(userId, entityId, d) ==
    d.userId = userId /\ d.fromEntityId = entityId

\* { userId, $or: [{ fromEntityId: entityId }, { toEntityId: entityId }] },
\* the filter of deleteEntity's cascade and of getRelations
touchesFilter(userId, entityId, d) ==
    d.userId = userId /\ (d.fromEntityId = entityId \/ d.toEntityId = entityId)

\* A mutant of deleteRelationFilter: the pair is matched in either direction.
deleteRelationFilterEitherDirection(userId, fromEntityId, toEntityId, d) ==
    /\ d.userId = userId
    /\ \/ d.fromEntityId = fromEntityId /\ d.toEntityId = toEntityId
       \/ d.fromEntityId = toEntityId /\ d.toEntityId = fromEntityId

\* { userId, fromEntityId, toEntityId }
deleteRelationFilter(userId, fromEntityId, toEntityId, d) ==
    d.userId = userId /\ d.fromEntityId = fromEntityId /\ d.toEntityId = toEntityId

\* The entity collection after the replaceOne of saveEntity
upsertEntity(coll, userId, entity, now) ==
    replaceOne(coll, {d \in coll : saveEntityFilter(userId, entity, d)},
               entityDocument(userId, entity, now))

\* Collection.bulkWrite(operations), ordered: the replaceOne operations of
\* saveEntitiesBatch applied one after the other
RECURSIVE bulkWrite(_, _, _, _)
bulkWrite(coll, userId, ents, now) ==
    IF Len(ents) = 0 THEN coll
    ELSE bulkWrite(upsertEntity(coll, userId, Head(ents), now), userId, Tail(ents), now)

\* The relation collection after the replaceOne of saveRelation
upsertRelation(coll, userId, relation, now) ==
    replaceOne(coll, {d \in coll : saveRelationFilter(userId, relation, d)},
               relationDocument(userId, relation, now))

----------------------------------------------------------------------------
(* Reads *)

\* Cursor.toArray(): the documents of a result set in the store's order
RECURSIVE toArray(_)
toArray(S) ==
    IF S = {} THEN <<>>
    ELSE LET d == CHOOSE x \in S : TRUE IN <<d>> \o toArray(S \ {d})

\* Array.prototype.map with documentToEntity and with documentToRelation
mapToEntity(docs) == [i \in 1..Len(docs) |-> documentToEntity(docs[i])]
mapToRelation(docs) == [i \in 1..Len(docs) |-> documentToRelation(docs[i])]

\* getEntity on the collection ents: Absent stands for null
getEntity(ents, userId, entityId) ==
    LET hits == {d \in ents : d.userId = userId /\ d.entityId = entityId}
    IN IF hits = {} THEN Absent
       ELSE Some(documentToEntity(CHOOSE d \in hits : TRUE))

\* A mutant of getRelations: the filter on userId is left out.
getRelationsAnyUser(rels, userId, entityId) ==
    mapToRelation(
           toArray({d \in rels : d.fromEntityId = entityId \/ d.toEntityId = entityId}))

\* getRelations on the collection rels
getRelations(rels, userId, entityId) ==
    mapToRelation(
           toArray({d \in rels : touchesFilter(userId, entityId, d)}))

\* loadForUser on the collections ents and rels
loadForUser(ents, rels, userId) ==
    [entities |-> mapToEntity( toArray({d \in ents : d.userId = userId})),
     relations |-> mapToRelation( toArray({d \in rels : d.userId = userId}))]

\* existsForUser
existsForUser(ents, userId) ==
    Cardinality({d \in ents : d.userId = userId}) > 0

\* A mutant of listUsers: distinct('userId') is taken on the relations.
listUsersOfRelations(ents) == {d.userId : d \in relations}

\* listUsers: entitiesCollection.distinct('userId')
listUsers(ents) == {d.userId : d \in ents}

\* A mutant of neighbours: a relation is followed from fromEntityId to
\* toEntityId alone.
RECURSIVE neighboursOutgoing(_, _, _)
neighboursOutgoing(entityRelations, currentEntityId, visited) ==
    IF Len(entityRelations) = 0 THEN <<>>
    ELSE LET nextEntityId == Head(entityRelations).toEntityId
             rest == neighboursOutgoing(Tail(entityRelations), currentEntityId, visited)
         IN IF nextEntityId \notin visited THEN <<nextEntityId>> \o rest ELSE rest

\* The neighbours the inner loop of getConnectedEntities pushes for the
\* relations of the current entity
RECURSIVE neighbours(_, _, _)
neighbours(entityRelations, currentEntityId, visited) ==
    IF Len(entityRelations) = 0 THEN <<>>
    ELSE LET relation == Head(entityRelations)
             nextEntityId == IF relation.fromEntityId = currentEntityId
                             THEN relation.toEntityId
                             ELSE relation.fromEntityId
             rest == neighbours(Tail(entityRelations), currentEntityId, visited)
         IN IF nextEntityId \notin visited THEN <<nextEntityId>> \o rest ELSE rest

\* A mutant of expands: the relations of a node at the maximum depth are
\* fetched too.
expandsAtMaxDepth(currentDepth, depth) == currentDepth <= depth

\* if (currentDepth < depth)
expands(currentDepth, depth) == currentDepth < depth

\* A mutant of skips: the test of the visited set is left out.
skipsTooDeepOnly(currentEntityId, currentDepth, visited, depth) ==
    currentDepth > depth

\* if (visited.has(currentEntityId) || currentDepth > depth) continue
skips(currentEntityId, currentDepth, visited, depth) ==
    currentEntityId \in visited \/ currentDepth > depth

\* The while loop of getConnectedEntities on a store that does not change
\* during the call
RECURSIVE traverse(_, _, _, _, _, _, _, _)
traverse(ents, rels, userId, depth, queue, visited, accE, accR) ==
    IF Len(queue) = 0 THEN [entities |-> accE, relations |-> accR]
    ELSE LET currentEntityId == Head(queue).entityId
             currentDepth == Head(queue).currentDepth
         IN IF skips(currentEntityId, currentDepth, visited, depth)
            THEN traverse(ents, rels, userId, depth, Tail(queue), visited, accE, accR)
            ELSE LET visited2 == visited \cup {currentEntityId}
                     entity == getEntity(ents, userId, currentEntityId)
                     accE2 == accE \o entity
                     entityRelations == IF expands(currentDepth, depth)
                                        THEN getRelations(rels, userId, currentEntityId)
                                        ELSE <<>>
                     pushed == neighbours(entityRelations, currentEntityId, visited2)
                     queue2 == Tail(queue) \o
                               [i \in 1..Len(pushed) |->
                                   [entityId |-> pushed[i],
                                    currentDepth |-> currentDepth + 1]]
                 IN traverse(ents, rels, userId, depth, queue2, visited2,
                             accE2, accR \o entityRelations)

getConnectedEntities(ents, rels, userId, entityId, depth) ==
    traverse(ents, rels, userId, depth,
             <<[entityId |-> entityId, currentDepth |-> 0]>>, {}, <<>>, <<>>)

----------------------------------------------------------------------------
(* Summary *)

RecentLimit == 10

\* The results the pipeline { $sort: { "metadata.updatedAt": -1 } },
\* { $limit: 10 }, { $project: { entityId: 1 } } may return: every order of
\* the user's documents that is descending in updatedAt, cut to the limit
recentEntities(ents, userId) ==
    LET docs == {d \in ents : d.userId = userId}
        n == Cardinality(docs)
        orders == {s \in [1..n -> docs] :
                     /\ \A i, j \in 1..n : i # j => s[i] # s[j]
                     /\ \A i, j \in 1..n :
                          i < j => s[i].metadata.updatedAt >= s[j].metadata.updatedAt}
    IN {[i \in 1..(IF n < RecentLimit THEN n ELSE RecentLimit) |-> s[i].entityId] :
           s \in orders}

\* The $group stage: entity type -> number of the user's documents of the type
entityTypeCounts(ents, userId) ==
    LET docs == {d \in ents : d.userId = userId}
    IN [t \in {d.entityType : d \in docs} |->
           Cardinality({d \in docs : d.entityType = t})]

\* generateSummary on the collections ents and rels, given the order recent
\* the aggregation returned
generateSummary(ents, rels, userId, recent, now) ==
    [totalEntities |-> Cardinality({d \in ents : d.userId = userId}),
     totalRelations |-> Cardinality({d \in rels : d.userId = userId}),
     entityTypes |-> entityTypeCounts(ents, userId),
     recentEntities |-> recent,
     searchIndex |-> [frequent_terms |-> <<>>, entity_names |-> recent],
     updatedAt |-> now]

\* The document updateSummaryIndex writes for a generated summary
summaryDocument(userId, summary, now) ==
    [userId |-> userId,
     summary |-> [totalEntities |-> summary.totalEntities,
                  totalRelations |-> summary.totalRelations,
                  entityTypes |-> summary.entityTypes],
     recentEntities |-> summary.recentEntities,
     searchIndex |-> summary.searchIndex,
     updatedAt |-> now]

\* A mutant of getUserSummary: the stored summary is not read, a summary is
\* generated on every call.
getUserSummaryAlwaysFresh(ents, rels, idx, userId, now) ==
    {generateSummary(ents, rels, userId, recent, now) :
        recent \in recentEntities(ents, userId)}

\* The summaries getUserSummary may return: the stored one when there is one,
\* else a generated one
getUserSummary(ents, rels, idx, userId, now) ==
    LET hits == {d \in idx : d.userId = userId}
    IN IF hits # {}
       THEN LET summary == CHOOSE d \in hits : TRUE
            IN {[totalEntities |-> summary.summary.totalEntities,
                 totalRelations |-> summary.summary.totalRelations,
                 entityTypes |-> summary.summary.entityTypes,
                 recentEntities |-> summary.recentEntities,
                 searchIndex |-> summary.searchIndex,
                 updatedAt |-> summary.updatedAt]}
       ELSE {generateSummary(ents, rels, userId, recent, now) :
                recent \in recentEntities(ents, userId)}

----------------------------------------------------------------------------
(* Inputs of the operations *)

RECURSIVE SeqsUpTo(_, _)
SeqsUpTo(S, n) ==
    IF n = 0 THEN {<<>>}
    ELSE LET shorter == SeqsUpTo(S, n - 1)
         IN shorter \cup {Append(s, x) : s \in {t \in shorter : Len(t) = n - 1}, x \in S}

\* The entities of the graphs saveForUser imports
GraphEntities ==
    {e \in EntityInputs : ~IsSome(e.metadata) /\ IsSome(e.tags)}

\* The relations of the graphs saveForUser imports: A -k-> B and B -w-> A
GraphRelations ==
    {r \in RelationInputs :
        /\ r.fromEntityId # r.toEntityId
        /\ (r.relationType = <<"k">>) = (r.fromEntityId = <<"A">>)}

\* u1 is the user whose calls are enumerated over every input; the other
\* tenant u2 works on the same ids with the entities and relations of the
\* imported graphs.
SaveEntityInputs ==
    {<<"u1", e>> : e \in EntityInputs} \cup {<<"u2", e>> : e \in GraphEntities}

SaveRelationInputs ==
    {<<"u1", r>> : r \in RelationInputs} \cup {<<"u2", r>> : r \in GraphRelations}

DeleteRelationInputs ==
    {<<"u1", f, t>> : f \in EntityIds, t \in EntityIds}
        \cup {<<"u2", r.fromEntityId, r.toEntityId>> : r \in GraphRelations}

BatchEntities ==
    {e \in EntityInputs : e.entityId = <<"A">> /\ IsSome(e.metadata) = IsSome(e.tags)}

\* Arrays of entities for saveEntitiesBatch, a repeated entityId included
BatchInputs == SeqsUpTo(BatchEntities, MaxBatch)

\* Arrays of entities of both ids for saveEntitiesBatch: an entity that
\* replaces a stored one with other content is among them
BatchOfBothInputs ==
    SeqsUpTo(GraphEntities \cup {e \in BatchEntities : IsSome(e.metadata)},
             MaxBatch)

\* Entities a caller passes without entityId or without name: the empty
\* sequence stands for the field that is missing
MalformedEntities ==
    {[e EXCEPT !.entityId = <<>>] : e \in GraphEntities}
        \cup {[e EXCEPT !.name = <<>>] : e \in GraphEntities}

\* The entities saveEntity and saveEntitiesBatch are called with when
\* some are malformed
ValidationEntities == GraphEntities \cup MalformedEntities

\* Values of the KnowledgeGraph type (lines 37-40)
GraphInputs ==
    {[entities |-> es, relations |-> rs] :
        es \in {<<>>, toArray(GraphEntities)},
        rs \in {s \in SeqsUpTo(GraphRelations, MaxBatch) :
                   \A i, j \in 1..Len(s) : i < j => s[i] # s[j]}}

\* The ids of the graphs the traversal is checked on
TraversalIds == EntityIds \cup {<<"C">>}

\* One entity for each id
TraversalEntities ==
    { [entityId |-> id, name |-> <<"N">> \o id, entityType |-> <<"q">>,
       observations |-> << <<"O", "b">> >>, metadata |-> Absent,
       tags |-> Some(<< <<"T">> >>), searchText |-> Absent] : id \in TraversalIds }

\* The ordered pairs the relations of the graphs join: the cycle A -> B -> C
\* -> A, the edge B -> A against it, and the self-loop of C
TraversalPairs ==
    { <<f, t>> \in TraversalIds \X TraversalIds :
        \/ <<f, t>> \in {<< <<"A">>, <<"B">> >>, << <<"B">>, <<"C">> >>,
                         << <<"C">>, <<"A">> >>, << <<"B">>, <<"A">> >>}
        \/ (f = t /\ f = <<"C">>) }

\* One relation (of type w) for each of the pairs
TraversalRelations ==
    { [relationId |-> p[1] \o <<"-">> \o <<"w">> \o <<"-">> \o p[2],
       fromEntityId |-> p[1], toEntityId |-> p[2], relationType |-> <<"w">>,
       strength |-> Absent, metadata |-> Absent] : p \in TraversalPairs }

\* Values of the KnowledgeGraph type for the traversal: every entity, or
\* every entity but A, and at most MaxEdges relations
TraversalGraphs ==
    {[entities |-> toArray(es), relations |-> toArray(rs)] :
        es \in {TraversalEntities,
                  {e \in TraversalEntities : e.entityId # <<"A">>}},
        rs \in {S \in SUBSET TraversalRelations : Cardinality(S) <= MaxEdges}}

\* The graphs of every entity and MaxEdges relations: with three relations,
\* the cycle, the pair A -> B and B -> A with a third edge, and the
\* self-loop of C with two other edges
LoopGraphs ==
    {g \in TraversalGraphs :
        /\ Len(g.entities) = Cardinality(TraversalEntities)
        /\ Len(g.relations) = MaxEdges}

\* The relation the other tenant saves on the same ids: B -w-> A
OtherTenantRelations == {r \in GraphRelations : r.relationType = <<"w">>}

\* The depths the traversal is asked for
TraversalDepths == 0..(MaxDepth + 1)

----------------------------------------------------------------------------
(* JSON values of the flat storages (src/storage/JsonStorage.ts) *)

\* A JSON value is its kind and its content.  The content of an array is
\* the sequence of its elements, that of an object the sequence of its
\* properties in insertion order.
jsNull == [kind |-> "null", value |-> 0]
jsBoolean(b) == [kind |-> "boolean", value |-> b]
jsNumber(n) == [kind |-> "number", value |-> n]
jsString(s) == [kind |-> "string", value |-> s]
jsArray(elements) == [kind |-> "array", value |-> elements]
jsObject(properties) == [kind |-> "object", value |-> properties]
property(key, value) == [key |-> key, value |-> value]

\* The values of the stored type T that are saved
JsonValues ==
    {jsNull, jsBoolean(FALSE), jsBoolean(TRUE), jsNumber(0), jsNumber(1),
     jsString(<<>>), jsString(<<"s">>), jsArray(<<>>), jsObject(<<>>)}

\* JavaScript's truthiness, as (a || b) and (a && b) test it
truthy(v) ==
    CASE v.kind = "null" -> FALSE
      [] v.kind = "boolean" -> v.value
      [] v.kind = "number" -> v.value # 0
      [] v.kind = "string" -> Len(v.value) > 0
      [] OTHER -> TRUE

Digits == <<"0", "1", "2", "3", "4", "5", "6", "7", "8", "9">>

\* JSON.stringify: the text of a value, one character (or one key, or one
\* string content) per element
RECURSIVE stringify(_)
stringify(v) ==
    CASE v.kind = "null" -> <<"n", "u", "l", "l">>
      [] v.kind = "boolean" ->
            IF v.value THEN <<"t", "r", "u", "e">>
            ELSE <<"f", "a", "l", "s", "e">>
      [] v.kind = "number" -> <<Digits[v.value + 1]>>
      [] v.kind = "string" -> <<"\"">> \o v.value \o <<"\"">>
      [] v.kind = "array" ->
            <<"[">>
            \o join([i \in 1..Len(v.value) |-> stringify(v.value[i])], <<",">>)
            \o <<"]">>
      [] v.kind = "object" ->
            <<"{">>
            \o join([i \in 1..Len(v.value) |->
                        <<"\"", v.value[i].key, "\"", ":">>
                        \o stringify(v.value[i].value)], <<",">>)
            \o <<"}">>

\* The document JsonUserStorage.saveForUser writes
documentData(userId, data, now) ==
    jsObject(<<property("userId", jsString(<<userId>>)),
               property("data", data),
               property("updatedAt", jsString(<<Digits[now + 1]>>)),
               property("createdAt", jsString(<<Digits[now + 1]>>)),
               property("version", jsString(<<"1.0.0">>)),
               property("dataType", jsString(<<"json-storage">>))>>)

\* The values whose text a file can hold
Parsable ==
    JsonValues
    \cup {documentData(u, d, now) :
            u \in Users, d \in JsonValues, now \in 0..MaxClock}

\* JSON.parse: the value of a text, Absent for a SyntaxError
parse(text) ==
    LET hits == {v \in Parsable : stringify(v) = text}
    IN IF hits = {} THEN Absent ELSE Some(CHOOSE v \in hits : TRUE)

\* document[key]: Absent stands for undefined
getProperty(document, key) ==
    IF document.kind # "object" THEN Absent
    ELSE LET hits == {i \in 1..Len(document.value) : document.value[i].key = key}
         IN IF hits = {} THEN Absent
            ELSE Some(document.value[CHOOSE i \in hits : \A j \in hits : i <= j].value)

\* The default data the storages are constructed with
defaultData == jsObject(<<property("default", jsBoolean(TRUE))>>)

\* structuredClone: a deep copy is an equal value
structuredClone(v) == v

----------------------------------------------------------------------------
(* JsonUserStorage: the files of a user *)

\* config.backupEnabled, by default
backupEnabled == TRUE

\* What fs.readFile and JSON.parse give (document.data || document) of,
\* Absent when one of them throws.  content is the content of a file,
\* Absent when the file does not exist.
readDocument(content) ==
    IF ~IsSome(content) THEN Absent
    ELSE LET document == parse(Get(content))
         IN IF ~IsSome(document) THEN Absent
            ELSE IF Get(document).kind = "null" THEN Absent
            ELSE LET data == getProperty(Get(document), "data")
                 IN IF IsSome(data) /\ truthy(Get(data)) THEN data
                    ELSE document

\* JsonUserStorage.loadForUser on the files fs
jsonLoadForUser(fs, userId) ==
    LET main == readDocument(fs[userId].data)
        backup == readDocument(fs[userId].backup)
    IN IF IsSome(main) THEN Get(main)
       ELSE IF backupEnabled /\ IsSome(backup) THEN Get(backup)
       ELSE structuredClone(defaultData)

\* What a write that failed has written: a strict prefix of the text, of
\* MaxWritten elements at most
Prefixes(text) ==
    {SubSeq(text, 1, k) : k \in {n \in 0..MaxWritten : n < Len(text)}}

----------------------------------------------------------------------------
(* MongodbUserStorage: encryption *)

\* The characters of the texts that are encrypted
Alphabet ==
    <<"0", "1", "\"", "s", "[", "]", "{", "}",
      "n", "u", "l", "t", "r", "e", "f", "a">>

Hex ==
    <<"00", "01", "02", "03", "04", "05", "06", "07",
      "08", "09", "0a", "0b", "0c", "0d", "0e", "0f">>

\* The byte of a character, and Buffer.toString('hex') of a byte and back
code(c) == (CHOOSE i \in 1..Len(Alphabet) : Alphabet[i] = c) - 1
hex(n) == Hex[n + 1]
unhex(h) == (CHOOSE i \in 1..Len(Hex) : Hex[i] = h) - 1

\* this.encryptionKey, and the keys a caller passes
encryptionKey == "k0"
KeyInputs == {Absent, Some("k1"), Some("bad")}

\* Buffer.from(encKey, 'hex') as createCipheriv takes it: Absent stands for
\* a key that is not 32 bytes long, which createCipheriv rejects
keyBuffer(encKey) ==
    CASE encKey = "k0" -> Some(0)
      [] encKey = "k1" -> Some(1)
      [] OTHER -> Absent

\* crypto.randomBytes(16)
Ivs == {0, 1}

\* The i-th byte of the aes-256-ctr key stream of a key and an iv
keystream(keyBuf, iv, i) == (keyBuf + 2 * iv + i) % Len(Alphabet)

\* encrypt(text, key) with the iv drawn: Absent when createCipheriv throws
encrypt(text, key, iv) ==
    LET keyBuf == keyBuffer(OrElse(key, encryptionKey))
    IN IF ~IsSome(keyBuf) THEN Absent
       ELSE Some(<<hex(iv), ":">>
                 \o [i \in 1..Len(text) |->
                        hex((code(text[i]) + keystream(Get(keyBuf), iv, i))
                              % Len(Alphabet))])

\* String.prototype.split(':'), its first two parts: a part that does not
\* exist is the empty sequence
split(text) ==
    LET seps == {i \in 1..Len(text) : text[i] = ":"}
        first == IF seps = {} THEN Len(text) + 1
                 ELSE CHOOSE i \in seps : \A j \in seps : i <= j
        later == {i \in seps : i > first}
        second == IF later = {} THEN Len(text) + 1
                  ELSE CHOOSE i \in later : \A j \in later : i <= j
    IN <<SubSeq(text, 1, first - 1), SubSeq(text, first + 1, second - 1)>>

\* A mutant of decrypt: the key passed by the caller is ignored.
decryptWithInstanceKey(encryptedText, key) ==
    LET keyBuf == keyBuffer(encryptionKey)
        ivHex == split(encryptedText)[1]
        encryptedHex == split(encryptedText)[2]
    IN IF Len(ivHex) = 0 \/ Len(encryptedHex) = 0 THEN Absent
       ELSE Some([i \in 1..Len(encryptedHex) |->
                    Alphabet[((unhex(encryptedHex[i]) + Len(Alphabet)
                                - keystream(Get(keyBuf), unhex(ivHex[1]), i))
                               % Len(Alphabet)) + 1]])

\* decrypt(encryptedText, key): Absent when it throws
decrypt(encryptedText, key) ==
    LET keyBuf == keyBuffer(OrElse(key, encryptionKey))
        ivHex == split(encryptedText)[1]
        encryptedHex == split(encryptedText)[2]
    IN IF Len(ivHex) = 0 \/ Len(encryptedHex) = 0 THEN Absent
       ELSE IF ~IsSome(keyBuf) THEN Absent
       ELSE Some([i \in 1..Len(encryptedHex) |->
                    Alphabet[((unhex(encryptedHex[i]) + Len(Alphabet)
                                - keystream(Get(keyBuf), unhex(ivHex[1]), i))
                               % Len(Alphabet)) + 1]])

----------------------------------------------------------------------------
(* MongodbUserStorage: documents *)

\* config.maxRetries, by default
maxRetries == 3

\* The document saveForUser writes
mongoDocument(userId, data, now) ==
    [userId |-> userId, data |-> Some(data), encryptedData |-> Absent,
     isEncrypted |-> FALSE, updatedAt |-> now, createdAt |-> now,
     dataType |-> "mcp_storage", version |-> "1.0.0"]

\* The document saveEncrypted writes
encryptedDocument(userId, encryptedData, now) ==
    [userId |-> userId, data |-> Absent, encryptedData |-> Some(encryptedData),
     isEncrypted |-> TRUE, updatedAt |-> now, createdAt |-> now,
     dataType |-> "mcp_storage", version |-> "1.0.0"]

\* collection.findOne({ userId }): Absent stands for null
findOne(coll, userId) ==
    LET hits == {d \in coll : d.userId = userId}
    IN IF hits = {} THEN Absent ELSE Some(CHOOSE d \in hits : TRUE)

\* (document && document.data) of loadForUser and loadDecrypted
hasData(document) ==
    /\ IsSome(document)
    /\ IsSome(Get(document).data)
    /\ truthy(Get(Get(document).data))

\* MongodbUserStorage.loadForUser after its connect()
mongoLoadForUser(coll, userId) ==
    LET document == findOne(coll, userId)
    IN IF hasData(document) THEN Get(Get(document).data)
       ELSE structuredClone(defaultData)

\* loadDecrypted after its connect()
loadDecrypted(coll, userId, key) ==
    LET document == findOne(coll, userId)
    IN IF /\ IsSome(document)
          /\ IsSome(Get(document).encryptedData)
          /\ Len(Get(Get(document).encryptedData)) > 0
          /\ Get(document).isEncrypted
       THEN LET decryptedString == decrypt(Get(Get(document).encryptedData), key)
                parsed == IF IsSome(decryptedString)
                          THEN parse(Get(decryptedString)) ELSE Absent
            IN IF IsSome(parsed) THEN Get(parsed)
               ELSE structuredClone(defaultData)
       ELSE IF hasData(document) THEN Get(Get(document).data)
       ELSE structuredClone(defaultData)

----------------------------------------------------------------------------
(* State *)

Idle == [op |-> "idle", entityId |-> <<>>, relations |-> <<>>, parts |-> {}]

NoOp ==
    [op |-> "init", userId |-> "none", entityId |-> <<>>, entities |-> <<>>,
     relation |-> Absent, now |-> 0, prevEntity |-> Absent,
     prevRelation |-> Absent, deleted |-> 0, depth |-> 0, result |-> Absent]

\* No getConnectedEntities call is in its loop.  current is the queue item
\* whose entity was fetched and whose relations are still to be fetched;
\* expanded is history: the ids the loop has gone on to fetch, in order.
NoTraversal ==
    [active |-> FALSE, entityId |-> <<>>, depth |-> 0, queue |-> <<>>,
     current |-> Absent, visited |-> {}, entities |-> <<>>, relations |-> <<>>,
     expanded |-> <<>>]

\* The callers of connect(), and no caller has called yet
Callers == 1..MaxCallers

NoConnects ==
    [pc |-> [c \in Callers |-> "idle"], clientConnect |-> 0, createIndexes |-> 0]

\* A user directory with no file
NoFiles == [data |-> Absent, temp |-> Absent, backup |-> Absent]

\* No JsonUserStorage.saveForUser call is in progress.  before is the
\* content of the data file when the call began.
JsonIdle == [pc |-> "idle", data |-> jsNull, before |-> Absent]

\* The callers of JsonUserStorage.saveForUser: one for each user, and a
\* second one that saves for u1 while the first is between two calls of the
\* file system
SecondCaller == "u1 again"
JsonCallers == Users \cup {SecondCaller}
userOf(caller) == IF caller = SecondCaller THEN "u1" ELSE caller

\* What saveForUser is called with on the files: every value for u1, one
\* value for the other user
JsonSaveInputs ==
    {<<"u1", d>> : d \in JsonValues} \cup {<<"u2", jsNumber(1)>>}

\* What saveEncrypted is called with: every value and every key for u1, one
\* value and the key of the instance for the other user
EncryptedInputs ==
    {<<"u1", d, k>> : d \in JsonValues, k \in KeyInputs}
        \cup {<<"u2", jsNumber(1), Absent>>}

\* No MongodbUserStorage.connect() call is in progress.  attempts counts the
\* client.connect() calls of the call in progress, delay is the last
\* setTimeout delay in seconds, failed tells that an earlier call threw.
NoMongoConnect ==
    [pc |-> "idle", retries |-> 0, attempts |-> 0, delay |-> 0, failed |-> FALSE]

NoFlatOp ==
    [op |-> "init", userId |-> "none", data |-> Absent, key |-> Absent,
     result |-> Absent, thrown |-> FALSE, before |-> Absent,
     cleanup |-> "none"]

NoneSaved ==
    [json |-> [u \in Users |-> Absent], mongo |-> [u \in Users |-> Absent],
     encrypted |-> [u \in Users |-> Absent]]

\* The environment variables the factory reads to choose a storage
EnvNames ==
    {"MONGODB_CONNECTION_STRING", "MCP_MONGODB_URI", "MONGO_URI",
     "MCP_STORAGE_TYPE"}

Init ==
    /\ entities = {}
    /\ relations = {}
    /\ index = {}
    /\ isConnected = FALSE
    /\ clock = 1
    /\ immediates = <<>>
    /\ refreshes = <<>>
    /\ calls = [u \in Users |-> Idle]
    /\ lastOp = NoOp
    /\ nOps = 0
    /\ cleared = {}
    /\ traversals = [u \in Users |-> NoTraversal]
    /\ connects = NoConnects
    /\ files = [u \in Users |-> NoFiles]
    /\ jsonCalls = [c \in JsonCallers |-> JsonIdle]
    /\ collection = {}
    /\ mongoIsConnected = FALSE
    /\ mongoConnect = NoMongoConnect
    /\ flatOp = NoFlatOp
    /\ saved = NoneSaved
    /\ env = [name \in EnvNames \cup {"MCP_MONGODB_RETRIES"} |-> Absent]
    /\ storage = Absent

\* connect(), called first by every public operation, with no other caller
\* in connect() at the same time
connect == isConnected' = TRUE

\* new Date(): the time last read, or a later one
newDate(now) ==
    /\ now \in {clock, clock + 1}
    /\ now <= MaxClock
    /\ clock' = now

\* A mutant of updateSummaryIndex: no callback is scheduled.
updateSummaryIndexDropped(userId) == immediates' = immediates

\* updateSummaryIndex: setImmediate(callback)
updateSummaryIndex(userId) == immediates' = Append(immediates, userId)

\* A public operation may be invoked
MayInvoke == nOps < MaxOps /\ Len(immediates) < MaxPending

----------------------------------------------------------------------------
(* Entity operations *)

saveEntity(userId, entity) ==
    /\ MayInvoke
    /\ connect
    /\ \E now \in 1..MaxClock :
        /\ newDate(now)
        /\ entities' = upsertEntity(entities, userId, entity, now)
        /\ lastOp' = [NoOp EXCEPT !.op = "saveEntity", !.userId = userId,
                                  !.entityId = entity.entityId,
                                  !.entities = <<entity>>, !.now = now,
                                  !.prevEntity =
                                      toArray({d \in entities :
                                                 saveEntityFilter(userId, entity, d)})]
    /\ updateSummaryIndex(userId)
    /\ nOps' = nOps + 1
    /\ UNCHANGED <<relations, index, refreshes, calls>>
    /\ cleared' = cleared \ {userId}
    /\ UNCHANGED <<traversals, connects>>
    /\ UNCHANGED flatVars

\* A mutant of saveEntitiesBatchBody: one refresh is scheduled per entity.
saveEntitiesBatchBodyPerEntity(userId, ents) ==
    IF Len(ents) = 0
    THEN /\ lastOp' = [NoOp EXCEPT !.op = "saveEntitiesBatch", !.userId = userId,
                                   !.now = clock]
         /\ UNCHANGED <<entities, immediates, clock>>
    ELSE /\ \E now \in 1..MaxClock :
              /\ newDate(now)
              /\ entities' = bulkWrite(entities, userId, ents, now)
              /\ lastOp' = [NoOp EXCEPT !.op = "saveEntitiesBatch",
                                        !.userId = userId, !.entities = ents,
                                        !.now = now]
         /\ immediates' = immediates \o [i \in 1..Len(ents) |-> userId]

\* saveEntitiesBatch without the connect() before it
saveEntitiesBatchBody(userId, ents) ==
    IF Len(ents) = 0
    THEN /\ lastOp' = [NoOp EXCEPT !.op = "saveEntitiesBatch", !.userId = userId,
                                   !.now = clock]
         /\ UNCHANGED <<entities, immediates, clock>>
    ELSE /\ \E now \in 1..MaxClock :
              /\ newDate(now)
              /\ entities' = bulkWrite(entities, userId, ents, now)
              /\ lastOp' = [NoOp EXCEPT !.op = "saveEntitiesBatch",
                                        !.userId = userId, !.entities = ents,
                                        !.now = now]
         /\ updateSummaryIndex(userId)

saveEntitiesBatch(userId, ents) ==
    /\ MayInvoke
    /\ connect
    /\ saveEntitiesBatchBody(userId, ents)
    /\ nOps' = nOps + 1
    /\ UNCHANGED <<relations, index, refreshes, calls>>
    /\ cleared' = cleared \ {userId}
    /\ UNCHANGED <<traversals, connects>>
    /\ UNCHANGED flatVars

\* deleteEntity up to the end of entitiesCollection.deleteOne
deleteEntity(userId, entityId) ==
    /\ MayInvoke
    /\ calls[userId] = Idle
    /\ connect
    /\ entities' = deleteOne(entities, {d \in entities :
                                          d.userId = userId /\ d.entityId = entityId})
    /\ calls' = [calls EXCEPT ![userId] =
                    [Idle EXCEPT !.op = "deleteEntity", !.entityId = entityId]]
    /\ lastOp' = [NoOp EXCEPT !.op = "deleteEntity.deleteOne", !.userId = userId,
                              !.entityId = entityId, !.now = clock]
    /\ nOps' = nOps + 1
    /\ UNCHANGED <<relations, index, clock, immediates, refreshes>>
    /\ cleared' = cleared \ {userId}
    /\ UNCHANGED <<traversals, connects>>
    /\ UNCHANGED flatVars

\* deleteEntity from relationsCollection.deleteMany to its return
deleteEntityCascade(userId) ==
    /\ calls[userId].op = "deleteEntity"
    /\ LET entityId == calls[userId].entityId
           hits == {d \in relations : touchesFilter(userId, entityId, d)}
       IN /\ relations' = relations \ hits
          /\ lastOp' = [NoOp EXCEPT !.op = "deleteEntity", !.userId = userId,
                                    !.entityId = entityId, !.now = clock,
                                    !.deleted = Cardinality(hits)]
    /\ updateSummaryIndex(userId)
    /\ calls' = [calls EXCEPT ![userId] = Idle]
    /\ UNCHANGED <<entities, index, isConnected, clock, refreshes, nOps>>
    /\ UNCHANGED <<cleared, traversals, connects>>
    /\ UNCHANGED flatVars

\* A mutant of deleteEntityCascadeFails: the rejection of deleteMany is
\* caught, and deleteEntity returns as if the cascade had completed.
deleteEntityCascadeFailsSwallowed(userId) ==
    /\ calls[userId].op = "deleteEntity"
    /\ LET entityId == calls[userId].entityId
           hits == {d \in relations : touchesFilter(userId, entityId, d)}
       IN \E removed \in SUBSET hits :
            /\ relations' = relations \ removed
            /\ lastOp' = [NoOp EXCEPT !.op = "deleteEntity", !.userId = userId,
                                      !.entityId = entityId, !.now = clock,
                                      !.deleted = Cardinality(removed)]
    /\ updateSummaryIndex(userId)
    /\ calls' = [calls EXCEPT ![userId] = Idle]
    /\ UNCHANGED <<entities, index, isConnected, clock, refreshes, nOps>>
    /\ UNCHANGED <<cleared, traversals, connects>>
    /\ UNCHANGED flatVars

\* relationsCollection.deleteMany rejects, having removed some of the
\* relations it matches: deleteEntity has no try, so that the rejection is
\* the rejection of deleteEntity and updateSummaryIndex is not reached
deleteEntityCascadeFails(userId) ==
    /\ calls[userId].op = "deleteEntity"
    /\ LET entityId == calls[userId].entityId
           hits == {d \in relations : touchesFilter(userId, entityId, d)}
       IN \E removed \in SUBSET hits :
            /\ relations' = relations \ removed
            /\ lastOp' = [NoOp EXCEPT !.op = "deleteEntity.failed",
                                      !.userId = userId,
                                      !.entityId = entityId, !.now = clock,
                                      !.deleted = Cardinality(removed)]
    /\ calls' = [calls EXCEPT ![userId] = Idle]
    /\ UNCHANGED <<entities, index, isConnected, clock, immediates, refreshes,
                   nOps>>
    /\ UNCHANGED <<cleared, traversals, connects>>
    /\ UNCHANGED flatVars

----------------------------------------------------------------------------
(* Relation operations *)

\* saveRelation without the connect() before it
saveRelationBody(userId, relation) ==
    /\ \E now \in 1..MaxClock :
        /\ newDate(now)
        /\ relations' = upsertRelation(relations, userId, relation, now)
        /\ lastOp' = [NoOp EXCEPT !.op = "saveRelation", !.userId = userId,
                                  !.relation = Some(relation), !.now = now,
                                  !.prevRelation =
                                      toArray({d \in relations :
                                                 saveRelationFilter(userId, relation, d)})]
    /\ updateSummaryIndex(userId)

saveRelation(userId, relation) ==
    /\ MayInvoke
    /\ connect
    /\ saveRelationBody(userId, relation)
    /\ nOps' = nOps + 1
    /\ UNCHANGED <<entities, index, refreshes, calls>>
    /\ cleared' = cleared \ {userId}
    /\ UNCHANGED <<traversals, connects>>
    /\ UNCHANGED flatVars

deleteRelation(userId, fromEntityId, toEntityId) ==
    /\ MayInvoke
    /\ connect
    /\ LET hits == {d \in relations :
                      deleteRelationFilter(userId, fromEntityId, toEntityId, d)}
       IN /\ relations' = deleteOne(relations, hits)
          /\ lastOp' = [NoOp EXCEPT !.op = "deleteRelation", !.userId = userId,
                                    !.relation = Some([fromEntityId |-> fromEntityId,
                                                       toEntityId |-> toEntityId]),
                                    !.now = clock, !.prevRelation = toArray(hits),
                                    !.deleted = IF hits = {} THEN 0 ELSE 1]
    /\ updateSummaryIndex(userId)
    /\ nOps' = nOps + 1
    /\ UNCHANGED <<entities, index, clock, refreshes, calls>>
    /\ cleared' = cleared \ {userId}
    /\ UNCHANGED <<traversals, connects>>
    /\ UNCHANGED flatVars

----------------------------------------------------------------------------
(* Facade *)

\* saveForUser up to the end of saveEntitiesBatch
saveForUser(userId, graph) ==
    /\ MayInvoke
    /\ calls[userId] = Idle
    /\ connect
    /\ saveEntitiesBatchBody(userId, graph.entities)
    /\ calls' = [calls EXCEPT ![userId] =
                    IF Len(graph.relations) = 0 THEN Idle
                    ELSE [Idle EXCEPT !.op = "saveForUser",
                                      !.relations = graph.relations]]
    /\ nOps' = nOps + 1
    /\ UNCHANGED <<relations, index, refreshes>>
    /\ cleared' = cleared \ {userId}
    /\ UNCHANGED <<traversals, connects>>
    /\ UNCHANGED flatVars

\* One iteration of the loop of saveForUser: saveRelation of the next
\* relation, with relationId generated
saveForUserRelation(userId) ==
    /\ calls[userId].op = "saveForUser"
    /\ LET relation == Head(calls[userId].relations)
           rest == Tail(calls[userId].relations)
       IN /\ saveRelationBody(userId,
                 [relation EXCEPT !.relationId = generateRelationId(relation)])
          /\ calls' = [calls EXCEPT ![userId] =
                          IF Len(rest) = 0 THEN Idle
                          ELSE [Idle EXCEPT !.op = "saveForUser", !.relations = rest]]
    /\ UNCHANGED <<entities, index, isConnected, refreshes, nOps>>
    /\ UNCHANGED <<cleared, traversals, connects>>
    /\ UNCHANGED flatVars

\* One of the three deleteMany calls of clearForUser
clearPart(userId, part) ==
    /\ entities' = IF part = "entities"
                   THEN {d \in entities : d.userId # userId} ELSE entities
    /\ relations' = IF part = "relations"
                    THEN {d \in relations : d.userId # userId} ELSE relations
    /\ index' = IF part = "index"
                THEN {d \in index : d.userId # userId} ELSE index

ClearParts == {"entities", "relations", "index"}

\* clearForUser up to the end of the first of its three deleteMany calls;
\* Promise.all issues the three together, and the store serves them in any
\* order
clearForUser(userId, part) ==
    /\ MayInvoke
    /\ calls[userId] = Idle
    /\ connect
    /\ clearPart(userId, part)
    /\ calls' = [calls EXCEPT ![userId] =
                    [Idle EXCEPT !.op = "clearForUser", !.parts = ClearParts \ {part}]]
    /\ lastOp' = [NoOp EXCEPT !.op = "clearForUser.deleteMany", !.userId = userId,
                              !.now = clock]
    /\ nOps' = nOps + 1
    /\ UNCHANGED <<clock, immediates, refreshes>>
    /\ cleared' = cleared \ {userId}
    /\ UNCHANGED <<traversals, connects>>
    /\ UNCHANGED flatVars

\* Another deleteMany of a clearForUser in progress
clearForUserNext(userId, part) ==
    /\ calls[userId].op = "clearForUser"
    /\ part \in calls[userId].parts
    /\ clearPart(userId, part)
    /\ LET rest == calls[userId].parts \ {part}
       IN /\ calls' = [calls EXCEPT ![userId] =
                          IF rest = {} THEN Idle
                          ELSE [Idle EXCEPT !.op = "clearForUser", !.parts = rest]]
          /\ lastOp' = [NoOp EXCEPT !.op = IF rest = {} THEN "clearForUser"
                                           ELSE "clearForUser.deleteMany",
                                    !.userId = userId, !.now = clock]
    /\ UNCHANGED <<isConnected, clock, immediates, refreshes, nOps>>
    /\ cleared' = IF calls[userId].parts = {part} THEN cleared \cup {userId}
                ELSE cleared
    /\ UNCHANGED <<traversals, connects>>
    /\ UNCHANGED flatVars

----------------------------------------------------------------------------
(* Graph query *)

\* getConnectedEntities(userId, entityId, depth) with no write during the
\* call: no handler is suspended between two store calls
getConnected(userId, entityId, depth) ==
    /\ \A u \in Users : calls[u] = Idle
    /\ connect
    /\ lastOp' = [NoOp EXCEPT !.op = "getConnectedEntities", !.userId = userId,
                              !.entityId = entityId, !.depth = depth,
                              !.now = clock,
                              !.result = Some(getConnectedEntities(
                                  entities, relations, userId, entityId, depth))]
    /\ UNCHANGED <<entities, relations, index, clock, immediates, refreshes,
                   calls, nOps>>
    /\ cleared' = cleared \ {userId}
    /\ UNCHANGED <<traversals, connects>>
    /\ UNCHANGED flatVars

\* getConnectedEntities(userId, entityId, depth) up to the while loop
getConnectedStart(userId, entityId, depth) ==
    /\ ~traversals[userId].active
    /\ connect
    /\ traversals' = [traversals EXCEPT ![userId] =
           [NoTraversal EXCEPT !.active = TRUE, !.entityId = entityId,
                               !.depth = depth,
                               !.queue = <<[entityId |-> entityId,
                                            currentDepth |-> 0]>>]]
    /\ lastOp' = [NoOp EXCEPT !.op = "getConnectedEntities.start",
                              !.userId = userId, !.entityId = entityId,
                              !.depth = depth, !.now = clock]
    /\ cleared' = cleared \ {userId}
    /\ UNCHANGED <<entities, relations, index, clock, immediates, refreshes,
                   calls, nOps, connects>>
    /\ UNCHANGED flatVars

\* An iteration of the while loop from queue.shift() to the end of
\* getEntity: the item is skipped, or its entity is fetched
getConnectedFetch(userId) ==
    LET t == traversals[userId]
    IN /\ t.active /\ ~IsSome(t.current) /\ Len(t.queue) > 0
       /\ LET currentEntityId == Head(t.queue).entityId
              currentDepth == Head(t.queue).currentDepth
          IN traversals' = [traversals EXCEPT ![userId] =
                IF skips(currentEntityId, currentDepth, t.visited, t.depth)
                THEN [t EXCEPT !.queue = Tail(t.queue)]
                ELSE [t EXCEPT !.queue = Tail(t.queue),
                               !.visited = t.visited \cup {currentEntityId},
                               !.entities = t.entities \o
                                   getEntity(entities, userId, currentEntityId),
                               !.current = IF expands(currentDepth, t.depth)
                                           THEN Some(Head(t.queue)) ELSE Absent,
                               !.expanded = Append(t.expanded, currentEntityId)]]
       /\ lastOp' = [NoOp EXCEPT !.op = "getConnectedEntities.getEntity",
                                 !.userId = userId, !.now = clock]
       /\ UNCHANGED <<entities, relations, index, isConnected, clock, immediates,
                      refreshes, calls, nOps, cleared, connects>>
       /\ UNCHANGED flatVars

\* The rest of the iteration: getRelations and the inner for loop
getConnectedExpand(userId) ==
    LET t == traversals[userId]
    IN /\ t.active /\ IsSome(t.current)
       /\ LET currentEntityId == Get(t.current).entityId
              currentDepth == Get(t.current).currentDepth
              entityRelations == getRelations(relations, userId, currentEntityId)
              pushed == neighbours(entityRelations, currentEntityId, t.visited)
          IN traversals' = [traversals EXCEPT ![userId] =
                [t EXCEPT !.current = Absent,
                          !.relations = t.relations \o entityRelations,
                          !.queue = t.queue \o
                              [i \in 1..Len(pushed) |->
                                  [entityId |-> pushed[i],
                                   currentDepth |-> currentDepth + 1]]]]
       /\ lastOp' = [NoOp EXCEPT !.op = "getConnectedEntities.getRelations",
                                 !.userId = userId, !.now = clock]
       /\ UNCHANGED <<entities, relations, index, isConnected, clock, immediates,
                      refreshes, calls, nOps, cleared, connects>>
       /\ UNCHANGED flatVars

\* The queue is empty: return { entities, relations }
getConnectedReturn(userId) ==
    LET t == traversals[userId]
    IN /\ t.active /\ ~IsSome(t.current) /\ Len(t.queue) = 0
       /\ traversals' = [traversals EXCEPT ![userId] = NoTraversal]
       /\ lastOp' = [NoOp EXCEPT !.op = "getConnectedEntities.return",
                                 !.userId = userId, !.entityId = t.entityId,
                                 !.depth = t.depth, !.now = clock,
                                 !.result = Some([entities |-> t.entities,
                                                  relations |-> t.relations])]
       /\ UNCHANGED <<entities, relations, index, isConnected, clock, immediates,
                      refreshes, calls, nOps, cleared, connects>>
       /\ UNCHANGED flatVars

----------------------------------------------------------------------------
(* Summary refresh *)

\* The callback of setImmediate up to the end of generateSummary
refreshGenerate ==
    /\ Len(immediates) > 0
    /\ Len(refreshes) < MaxRefreshing
    /\ LET userId == Head(immediates)
       IN /\ \E recent \in recentEntities(entities, userId) :
                refreshes' = Append(refreshes,
                    [userId |-> userId,
                     summary |-> generateSummary(entities, relations, userId,
                                                 recent, clock)])
          /\ lastOp' = [NoOp EXCEPT !.op = "generateSummary", !.userId = userId,
                                    !.now = clock]
    /\ immediates' = Tail(immediates)
    /\ UNCHANGED <<entities, relations, index, isConnected, clock, calls, nOps>>
    /\ UNCHANGED <<cleared, traversals, connects>>
    /\ UNCHANGED flatVars

\* The callback of setImmediate from indexCollection.replaceOne to its end
refreshReplace(i) ==
    /\ i \in 1..Len(refreshes)
    /\ LET userId == refreshes[i].userId
       IN \E now \in 1..MaxClock :
            /\ newDate(now)
            /\ index' = replaceOne(index, {d \in index : d.userId = userId},
                                   summaryDocument(userId, refreshes[i].summary, now))
            /\ lastOp' = [NoOp EXCEPT !.op = "updateSummaryIndex", !.userId = userId,
                                      !.now = now]
    /\ refreshes' = [j \in 1..(Len(refreshes) - 1) |->
                        IF j < i THEN refreshes[j] ELSE refreshes[j + 1]]
    /\ UNCHANGED <<entities, relations, isConnected, immediates, calls, nOps>>
    /\ UNCHANGED <<cleared, traversals, connects>>
    /\ UNCHANGED flatVars

\* A mutant of catchRefreshError: the error leaves the callback, and the
\* unhandled rejection ends the process with the handlers it was running.
rethrowRefreshError(userId) ==
    /\ calls' = [u \in Users |-> Idle]
    /\ UNCHANGED <<entities, relations>>

\* catch (error) { console.error(...) }: the error is logged and dropped
catchRefreshError(userId) == UNCHANGED <<entities, relations, calls>>

\* The callback of setImmediate when generateSummary throws
refreshGenerateFails ==
    /\ Len(immediates) > 0
    /\ catchRefreshError(Head(immediates))
    /\ lastOp' = [NoOp EXCEPT !.op = "generateSummary.failed",
                              !.userId = Head(immediates), !.now = clock]
    /\ immediates' = Tail(immediates)
    /\ UNCHANGED <<index, isConnected, clock, refreshes, nOps, cleared,
                   traversals, connects>>
    /\ UNCHANGED flatVars

\* The callback of setImmediate when indexCollection.replaceOne throws
refreshReplaceFails(i) ==
    /\ i \in 1..Len(refreshes)
    /\ catchRefreshError(refreshes[i].userId)
    /\ lastOp' = [NoOp EXCEPT !.op = "updateSummaryIndex.failed",
                              !.userId = refreshes[i].userId, !.now = clock]
    /\ refreshes' = [j \in 1..(Len(refreshes) - 1) |->
                        IF j < i THEN refreshes[j] ELSE refreshes[j + 1]]
    /\ UNCHANGED <<index, isConnected, clock, immediates, nOps, cleared,
                   traversals, connects>>
    /\ UNCHANGED flatVars

----------------------------------------------------------------------------
(* Summary query *)

\* getUserSummary(userId) with no write during the call
getSummary(userId) ==
    /\ connect
    /\ \E summary \in getUserSummary(entities, relations, index, userId, clock) :
          lastOp' = [NoOp EXCEPT !.op = "getUserSummary", !.userId = userId,
                                 !.now = clock, !.result = Some(summary)]
    /\ cleared' = cleared \ {userId}
    /\ UNCHANGED <<entities, relations, index, clock, immediates, refreshes,
                   calls, nOps, traversals, connects>>
    /\ UNCHANGED flatVars

\* listUsers()
listUsersCall ==
    /\ connect
    /\ lastOp' = [NoOp EXCEPT !.op = "listUsers", !.now = clock,
                              !.result = Some(listUsers(entities))]
    /\ UNCHANGED <<entities, relations, index, clock, immediates, refreshes,
                   calls, nOps, cleared, traversals, connects>>
    /\ UNCHANGED flatVars

\* existsForUser(userId)
existsForUserCall(userId) ==
    /\ connect
    /\ lastOp' = [NoOp EXCEPT !.op = "existsForUser", !.userId = userId,
                              !.now = clock,
                              !.result = Some(existsForUser(entities, userId))]
    /\ UNCHANGED <<entities, relations, index, clock, immediates, refreshes,
                   calls, nOps, cleared, traversals, connects>>
    /\ UNCHANGED flatVars

----------------------------------------------------------------------------
(* connect() one await at a time *)

\* The caller enters connect(): if (!this.isConnected) it calls
\* client.connect() and waits, else it returns at once
connectCall(c) ==
    /\ connects.pc[c] = "idle"
    /\ connects' =
          IF isConnected
          THEN [connects EXCEPT !.pc[c] = "done"]
          ELSE [connects EXCEPT !.pc[c] = "clientConnect",
                                !.clientConnect = connects.clientConnect + 1]
    /\ lastOp' = [NoOp EXCEPT !.op = "connect", !.now = clock]
    /\ UNCHANGED <<entities, relations, index, isConnected, clock, immediates,
                   refreshes, calls, nOps, cleared, traversals>>
    /\ UNCHANGED flatVars

\* client.connect() has resolved: this.isConnected = true, and
\* createIndexes() is called
connectResume(c) ==
    /\ connects.pc[c] = "clientConnect"
    /\ isConnected' = TRUE
    /\ connects' = [connects EXCEPT !.pc[c] = "createIndexes",
                                    !.createIndexes = connects.createIndexes + 1]
    /\ lastOp' = [NoOp EXCEPT !.op = "connect.clientConnect", !.now = clock]
    /\ UNCHANGED <<entities, relations, index, clock, immediates, refreshes,
                   calls, nOps, cleared, traversals>>
    /\ UNCHANGED flatVars

\* client.connect() has rejected: connect() throws to its caller
connectFails(c) ==
    /\ connects.pc[c] = "clientConnect"
    /\ connects' = [connects EXCEPT !.pc[c] = "failed"]
    /\ lastOp' = [NoOp EXCEPT !.op = "connect.failed", !.now = clock]
    /\ UNCHANGED <<entities, relations, index, isConnected, clock, immediates,
                   refreshes, calls, nOps, cleared, traversals>>
    /\ UNCHANGED flatVars

\* createIndexes() has resolved: connect() returns
connectReturn(c) ==
    /\ connects.pc[c] = "createIndexes"
    /\ connects' = [connects EXCEPT !.pc[c] = "done"]
    /\ lastOp' = [NoOp EXCEPT !.op = "connect.createIndexes", !.now = clock]
    /\ UNCHANGED <<entities, relations, index, isConnected, clock, immediates,
                   refreshes, calls, nOps, cleared, traversals>>
    /\ UNCHANGED flatVars

----------------------------------------------------------------------------
(* MongodbUserStorage.connect(), one await at a time *)

\* A number of JavaScript: NaN, or an integer
NaN == [nan |-> TRUE, n |-> 0]
number(n) == [nan |-> FALSE, n |-> n]

\* parseInt on the texts MCP_MONGODB_RETRIES is set to; "3" is the default,
\* of createFromEnvironment as of the constructor
parseInt(text) ==
    CASE text = "3" -> number(maxRetries)
      [] text = "0" -> number(0)
      [] text = "1" -> number(1)
      [] text = "2" -> number(2)
      [] text = "-1" -> number(-1)
      [] OTHER -> NaN

\* The texts MCP_MONGODB_RETRIES is set to: not set, empty, numbers and a
\* text that is no number
RetriesValues ==
    {Absent, Some(""), Some("0"), Some("1"), Some("2"), Some("-1"), Some("abc")}

\* this.config.maxRetries of a storage that createFromEnvironment creates:
\* parseInt(process.env.MCP_MONGODB_RETRIES || '3')
configMaxRetries ==
    LET value == env["MCP_MONGODB_RETRIES"]
    IN IF IsSome(value) /\ Get(value) # "" THEN parseInt(Get(value))
       ELSE parseInt("3")

\* while (retries < maxRetries): a comparison with NaN is false
mayRetry(retries) == ~configMaxRetries.nan /\ retries < configMaxRetries.n

\* A mutant of exhausted: the last failure is not thrown.
exhaustedNever(retries) == FALSE

\* if (retries >= maxRetries) throw
exhausted(retries) == ~configMaxRetries.nan /\ retries >= configMaxRetries.n

\* connect() is called: if (!this.isConnected) it enters the loop with
\* retries = 0, else it returns at once
mongoConnectCall ==
    /\ mongoConnect.pc = "idle"
    /\ mongoConnect' =
          [mongoConnect EXCEPT
              !.pc = IF ~mongoIsConnected /\ mayRetry(0) THEN "loop"
                     ELSE "returned",
              !.retries = 0, !.attempts = 0, !.delay = 0]
    /\ flatOp' = [NoFlatOp EXCEPT !.op = "connect"]
    /\ UNCHANGED <<files, jsonCalls, collection, mongoIsConnected, saved, env,
                   storage>>
    /\ UNCHANGED graphVars

\* client.connect() has resolved: this.isConnected = true; createIndexes()
\* catches its own errors; connect() returns
mongoClientConnect ==
    /\ mongoConnect.pc = "loop"
    /\ mongoIsConnected' = TRUE
    /\ mongoConnect' = [mongoConnect EXCEPT !.pc = "returned",
                                            !.attempts = mongoConnect.attempts + 1]
    /\ flatOp' = [NoFlatOp EXCEPT !.op = "connect.clientConnect"]
    /\ UNCHANGED <<files, jsonCalls, collection, saved, env, storage>>
    /\ UNCHANGED graphVars

\* client.connect() has rejected: retries++, and the call throws or waits
\* setTimeout(1000 * retries)
mongoClientConnectFails ==
    /\ mongoConnect.pc = "loop"
    /\ LET retries == mongoConnect.retries + 1
       IN mongoConnect' =
             IF exhausted(retries)
             THEN [mongoConnect EXCEPT !.pc = "thrown", !.retries = retries,
                                       !.attempts = mongoConnect.attempts + 1,
                                       !.failed = TRUE]
             ELSE [mongoConnect EXCEPT !.pc = "setTimeout", !.retries = retries,
                                       !.attempts = mongoConnect.attempts + 1,
                                       !.delay = retries]
    /\ flatOp' = [NoFlatOp EXCEPT !.op = "connect.failed"]
    /\ UNCHANGED <<files, jsonCalls, collection, mongoIsConnected, saved, env,
                   storage>>
    /\ UNCHANGED graphVars

\* The timer has fired: the loop tests its condition again
mongoBackoff ==
    /\ mongoConnect.pc = "setTimeout"
    /\ mongoConnect' =
          [mongoConnect EXCEPT
              !.pc = IF mayRetry(mongoConnect.retries) THEN "loop"
                     ELSE "returned"]
    /\ flatOp' = [NoFlatOp EXCEPT !.op = "connect.setTimeout"]
    /\ UNCHANGED <<files, jsonCalls, collection, mongoIsConnected, saved, env,
                   storage>>
    /\ UNCHANGED graphVars

\* The caller of connect() has its answer
mongoConnectDone ==
    /\ mongoConnect.pc \in {"returned", "thrown"}
    /\ mongoConnect' = [mongoConnect EXCEPT !.pc = "idle"]
    /\ flatOp' = [NoFlatOp EXCEPT !.op = "connect.done",
                                  !.thrown = mongoConnect.pc = "thrown"]
    /\ UNCHANGED <<files, jsonCalls, collection, mongoIsConnected, saved, env,
                   storage>>
    /\ UNCHANGED graphVars

\* disconnect()
mongoDisconnect ==
    /\ mongoConnect.pc = "idle"
    /\ mongoIsConnected
    /\ mongoIsConnected' = FALSE
    /\ flatOp' = [NoFlatOp EXCEPT !.op = "disconnect"]
    /\ UNCHANGED <<files, jsonCalls, collection, mongoConnect, saved, env,
                   storage>>
    /\ UNCHANGED graphVars

----------------------------------------------------------------------------
(* JsonUserStorage, one file-system call at a time *)

\* The text saveForUser writes for the call in progress of a user
jsonContent(userId) ==
    stringify(documentData(userId, jsonCalls[userId].data, clock))

\* saveForUser(userId, data) is called by the one caller of the user
jsonSaveForUser(userId, data) ==
    /\ jsonCalls[userId].pc = "idle"
    /\ jsonCalls' = [jsonCalls EXCEPT ![userId] =
                        [pc |-> "mkdir", data |-> data,
                         before |-> files[userId].data]]
    /\ saved' = [saved EXCEPT !.json[userId] = Absent]
    /\ flatOp' = [NoFlatOp EXCEPT !.op = "json.saveForUser.call",
                                  !.userId = userId, !.data = Some(data)]
    /\ UNCHANGED <<files, collection, mongoIsConnected, mongoConnect, env,
                   storage>>
    /\ UNCHANGED graphVars

\* fs.mkdir(dir, { recursive: true }) has resolved
jsonMkdir(userId) ==
    /\ jsonCalls[userId].pc = "mkdir"
    /\ jsonCalls' = [jsonCalls EXCEPT ![userId].pc = "copyFile"]
    /\ flatOp' = [NoFlatOp EXCEPT !.op = "json.saveForUser.mkdir",
                                  !.userId = userId]
    /\ UNCHANGED <<files, saved, collection, mongoIsConnected, mongoConnect,
                   env, storage>>
    /\ UNCHANGED graphVars

\* fs.mkdir has rejected, outside the try: saveForUser rejects
jsonMkdirFails(userId) ==
    /\ jsonCalls[userId].pc = "mkdir"
    /\ jsonCalls' = [jsonCalls EXCEPT ![userId] = JsonIdle]
    /\ flatOp' = [NoFlatOp EXCEPT !.op = "json.saveForUser",
                                  !.userId = userId, !.thrown = TRUE,
                                  !.data = Some(jsonCalls[userId].data),
                                  !.before = jsonCalls[userId].before]
    /\ UNCHANGED <<files, saved, collection, mongoIsConnected, mongoConnect,
                   env, storage>>
    /\ UNCHANGED graphVars

\* if (backupEnabled && await existsForUser(userId)) copyFile(filePath,
\* backupPath)
jsonCopyFile(userId) ==
    /\ jsonCalls[userId].pc = "copyFile"
    /\ files' = IF backupEnabled /\ IsSome(files[userId].data)
                THEN [files EXCEPT ![userId].backup = files[userId].data]
                ELSE files
    /\ jsonCalls' = [jsonCalls EXCEPT ![userId].pc = "writeFile"]
    /\ flatOp' = [NoFlatOp EXCEPT !.op = "json.saveForUser.copyFile",
                                  !.userId = userId]
    /\ UNCHANGED <<saved, collection, mongoIsConnected, mongoConnect, env,
                   storage>>
    /\ UNCHANGED graphVars

\* copyFile has rejected, having written nothing or a part of the backup
jsonCopyFileFails(userId) ==
    /\ jsonCalls[userId].pc = "copyFile"
    /\ backupEnabled /\ IsSome(files[userId].data)
    /\ \E backup \in {files[userId].backup}
                       \cup {Some(p) : p \in Prefixes(Get(files[userId].data))} :
          files' = [files EXCEPT ![userId].backup = backup]
    /\ jsonCalls' = [jsonCalls EXCEPT ![userId].pc = "catch"]
    /\ flatOp' = [NoFlatOp EXCEPT !.op = "json.saveForUser.copyFile",
                                  !.userId = userId, !.thrown = TRUE]
    /\ UNCHANGED <<saved, collection, mongoIsConnected, mongoConnect, env,
                   storage>>
    /\ UNCHANGED graphVars

\* fs.writeFile(tempPath, jsonContent) has resolved
jsonWriteFile(userId) ==
    /\ jsonCalls[userId].pc = "writeFile"
    /\ files' = [files EXCEPT ![userId].temp = Some(jsonContent(userId))]
    /\ jsonCalls' = [jsonCalls EXCEPT ![userId].pc = "rename"]
    /\ flatOp' = [NoFlatOp EXCEPT !.op = "json.saveForUser.writeFile",
                                  !.userId = userId]
    /\ UNCHANGED <<saved, collection, mongoIsConnected, mongoConnect, env,
                   storage>>
    /\ UNCHANGED graphVars

\* fs.writeFile has rejected, having written nothing or a part of the text
jsonWriteFileFails(userId) ==
    /\ jsonCalls[userId].pc = "writeFile"
    /\ \E temp \in {files[userId].temp}
                     \cup {Some(p) : p \in Prefixes(jsonContent(userId))} :
          files' = [files EXCEPT ![userId].temp = temp]
    /\ jsonCalls' = [jsonCalls EXCEPT ![userId].pc = "catch"]
    /\ flatOp' = [NoFlatOp EXCEPT !.op = "json.saveForUser.writeFile",
                                  !.userId = userId, !.thrown = TRUE]
    /\ UNCHANGED <<saved, collection, mongoIsConnected, mongoConnect, env,
                   storage>>
    /\ UNCHANGED graphVars

\* A mutant of rename: the temp file is copied over the data file a part at
\* a time, and the step is taken when half of it is copied.
renameInParts(fs, userId) ==
    [fs EXCEPT ![userId].data =
                   Some(SubSeq(Get(fs[userId].temp), 1,
                               Len(Get(fs[userId].temp)) \div 2))]

\* fs.rename(tempPath, filePath): the data file becomes the temp file in
\* one step
rename(fs, userId) ==
    [fs EXCEPT ![userId].data = fs[userId].temp, ![userId].temp = Absent]

\* fs.rename has resolved: the temp file was there
jsonRename(userId) ==
    /\ jsonCalls[userId].pc = "rename"
    /\ IsSome(files[userId].temp)
    /\ files' = rename(files, userId)
    /\ jsonCalls' = [jsonCalls EXCEPT ![userId].pc = "unlink"]
    /\ flatOp' = [NoFlatOp EXCEPT !.op = "json.saveForUser.rename",
                                  !.userId = userId]
    /\ UNCHANGED <<saved, collection, mongoIsConnected, mongoConnect, env,
                   storage>>
    /\ UNCHANGED graphVars

\* fs.rename has rejected: no file has changed
jsonRenameFails(userId) ==
    /\ jsonCalls[userId].pc = "rename"
    /\ jsonCalls' = [jsonCalls EXCEPT ![userId].pc = "catch"]
    /\ flatOp' = [NoFlatOp EXCEPT !.op = "json.saveForUser.rename",
                                  !.userId = userId, !.thrown = TRUE]
    /\ UNCHANGED <<files, saved, collection, mongoIsConnected, mongoConnect,
                   env, storage>>
    /\ UNCHANGED graphVars

\* if (backupEnabled) try { unlink(backupPath) } catch { ignore }: the
\* backup is removed, and saveForUser returns
jsonUnlinkBackup(userId) ==
    /\ jsonCalls[userId].pc = "unlink"
    /\ files' = IF backupEnabled THEN [files EXCEPT ![userId].backup = Absent]
                ELSE files
    /\ jsonCalls' = [jsonCalls EXCEPT ![userId] = JsonIdle]
    /\ saved' = [saved EXCEPT !.json[userId] = Some(jsonCalls[userId].data)]
    /\ flatOp' = [NoFlatOp EXCEPT !.op = "json.saveForUser",
                                  !.userId = userId,
                                  !.data = Some(jsonCalls[userId].data),
                                  !.before = jsonCalls[userId].before]
    /\ UNCHANGED <<collection, mongoIsConnected, mongoConnect, env, storage>>
    /\ UNCHANGED graphVars

\* unlink(backupPath) has rejected: the error is ignored, the backup stays,
\* and saveForUser returns
jsonUnlinkBackupFails(userId) ==
    /\ jsonCalls[userId].pc = "unlink"
    /\ backupEnabled
    /\ jsonCalls' = [jsonCalls EXCEPT ![userId] = JsonIdle]
    /\ saved' = [saved EXCEPT !.json[userId] = Some(jsonCalls[userId].data)]
    /\ flatOp' = [NoFlatOp EXCEPT !.op = "json.saveForUser",
                                  !.userId = userId,
                                  !.data = Some(jsonCalls[userId].data),
                                  !.before = jsonCalls[userId].before,
                                  !.cleanup = "failed"]
    /\ UNCHANGED <<files, collection, mongoIsConnected, mongoConnect, env,
                   storage>>
    /\ UNCHANGED graphVars

\* catch (error): try { unlink(tempPath) } catch { ignore }, then throw.
\* cleanup tells whether unlink has removed the temp file, has found none,
\* or has rejected.
jsonCatch(userId) ==
    /\ jsonCalls[userId].pc = "catch"
    /\ \E cleanup \in IF IsSome(files[userId].temp) THEN {"removed", "failed"}
                      ELSE {"absent"} :
          /\ files' = IF cleanup = "removed"
                      THEN [files EXCEPT ![userId].temp = Absent]
                      ELSE files
          /\ flatOp' = [NoFlatOp EXCEPT !.op = "json.saveForUser",
                                        !.userId = userId, !.thrown = TRUE,
                                        !.data = Some(jsonCalls[userId].data),
                                        !.before = jsonCalls[userId].before,
                                        !.cleanup = cleanup]
    /\ jsonCalls' = [jsonCalls EXCEPT ![userId] = JsonIdle]
    /\ UNCHANGED <<saved, collection, mongoIsConnected, mongoConnect, env,
                   storage>>
    /\ UNCHANGED graphVars

\* loadForUser(userId)
jsonLoad(userId) ==
    /\ flatOp' = [NoFlatOp EXCEPT !.op = "json.loadForUser", !.userId = userId,
                                  !.result = Some(jsonLoadForUser(files, userId))]
    /\ UNCHANGED <<files, jsonCalls, saved, collection, mongoIsConnected,
                   mongoConnect, env, storage>>
    /\ UNCHANGED graphVars

\* clearForUser(userId), by the one caller of the user: the data file and
\* the backup file are unlinked
jsonClear(userId) ==
    /\ jsonCalls[userId].pc = "idle"
    /\ files' = [files EXCEPT ![userId].data = Absent, ![userId].backup = Absent]
    /\ saved' = [saved EXCEPT !.json[userId] = Absent]
    /\ flatOp' = [NoFlatOp EXCEPT !.op = "json.clearForUser", !.userId = userId]
    /\ UNCHANGED <<jsonCalls, collection, mongoIsConnected, mongoConnect, env,
                   storage>>
    /\ UNCHANGED graphVars

----------------------------------------------------------------------------
(* MongodbUserStorage, after the connect() of each operation has returned *)

\* saveForUser(userId, data)
mongoSaveForUser(userId, data) ==
    /\ mongoIsConnected
    /\ collection' = replaceOne(collection,
                                {d \in collection : d.userId = userId},
                                mongoDocument(userId, data, clock))
    /\ saved' = [saved EXCEPT !.mongo[userId] = Some(data),
                              !.encrypted[userId] = Absent]
    /\ flatOp' = [NoFlatOp EXCEPT !.op = "mongo.saveForUser", !.userId = userId,
                                  !.data = Some(data)]
    /\ UNCHANGED <<files, jsonCalls, mongoIsConnected, mongoConnect, env,
                   storage>>
    /\ UNCHANGED graphVars

\* loadForUser(userId)
mongoLoad(userId) ==
    /\ mongoIsConnected
    /\ flatOp' = [NoFlatOp EXCEPT !.op = "mongo.loadForUser", !.userId = userId,
                                  !.result =
                                      Some(mongoLoadForUser(collection, userId))]
    /\ UNCHANGED <<files, jsonCalls, saved, collection, mongoIsConnected,
                   mongoConnect, env, storage>>
    /\ UNCHANGED graphVars

\* clearForUser(userId)
mongoClear(userId) ==
    /\ mongoIsConnected
    /\ collection' = deleteOne(collection, {d \in collection : d.userId = userId})
    /\ saved' = [saved EXCEPT !.mongo[userId] = Absent,
                              !.encrypted[userId] = Absent]
    /\ flatOp' = [NoFlatOp EXCEPT !.op = "mongo.clearForUser", !.userId = userId]
    /\ UNCHANGED <<files, jsonCalls, mongoIsConnected, mongoConnect, env,
                   storage>>
    /\ UNCHANGED graphVars

\* saveEncrypted(userId, data, encryptionKey): encrypt throws before the
\* store is written when the key is not one createCipheriv takes
saveEncrypted(userId, data, key) ==
    /\ mongoIsConnected
    /\ \E iv \in Ivs :
          LET encryptedData == encrypt(stringify(data), key, iv)
          IN IF IsSome(encryptedData)
             THEN /\ collection' =
                        replaceOne(collection,
                                   {d \in collection : d.userId = userId},
                                   encryptedDocument(userId, Get(encryptedData),
                                                     clock))
                  /\ saved' = [saved EXCEPT
                                  !.mongo[userId] = Absent,
                                  !.encrypted[userId] =
                                      Some([data |-> data, key |-> key])]
                  /\ flatOp' = [NoFlatOp EXCEPT !.op = "saveEncrypted",
                                                !.userId = userId,
                                                !.data = Some(data),
                                                !.key = key]
             ELSE /\ UNCHANGED <<collection, saved>>
                  /\ flatOp' = [NoFlatOp EXCEPT !.op = "saveEncrypted",
                                                !.userId = userId,
                                                !.data = Some(data),
                                                !.key = key, !.thrown = TRUE]
    /\ UNCHANGED <<files, jsonCalls, mongoIsConnected, mongoConnect, env,
                   storage>>
    /\ UNCHANGED graphVars

\* loadDecrypted(userId, encryptionKey)
loadDecryptedCall(userId, key) ==
    /\ mongoIsConnected
    /\ flatOp' = [NoFlatOp EXCEPT !.op = "loadDecrypted", !.userId = userId,
                                  !.key = key,
                                  !.result =
                                      Some(loadDecrypted(collection, userId, key))]
    /\ UNCHANGED <<files, jsonCalls, saved, collection, mongoIsConnected,
                   mongoConnect, env, storage>>
    /\ UNCHANGED graphVars

----------------------------------------------------------------------------
(* StorageFactory (src/unnamed/part_004) *)

\* The values of the environment variables: not set, empty, or a text
UriValues == {Absent, Some(""), Some("mongodb://h"), Some("bad")}
StorageTypeValues == {Absent, Some("json"), Some("mongodb"), Some("other")}

EnvValues(name) ==
    IF name = "MCP_STORAGE_TYPE" THEN StorageTypeValues ELSE UriValues

\* (a || b): the first of two environment values that is truthy, a value
\* that is set and not empty
orEnv(a, b) == IF IsSome(a) /\ Get(a) # "" THEN a ELSE b

\* new MongoClient(connectionString) throws on a connection string that is
\* not a MongoDB URI
validUri(connectionString) == connectionString # "bad"

\* Values of the UnifiedStorageConfig type (lines 14-34): the configuration
\* of a storage is optional, and a text that is required may be empty
unifiedConfig(type, json, mongodb, paginatedGraph) ==
    [type |-> type, json |-> json, mongodb |-> mongodb,
     paginatedGraph |-> paginatedGraph]

\* What a call of the factory gives: the type of the storage it returns, or
\* the error it throws
created(type) == [type |-> Some(type), thrown |-> "none"]
throws(error) == [type |-> Absent, thrown |-> error]

\* The default data of a knowledge graph
emptyGraph ==
    jsObject(<<property("entities", jsArray(<<>>)),
               property("relations", jsArray(<<>>))>>)

\* defaultData && typeof defaultData === 'object' &&
\* ('entities' in defaultData || 'relations' in defaultData)
isKnowledgeGraph(data) ==
    /\ data.kind = "object"
    /\ (IsSome(getProperty(data, "entities"))
          \/ IsSome(getProperty(data, "relations")))

\* createUserStorage(config, defaultData)
createUserStorage(config, data) ==
    CASE config.type = "json" ->
            IF ~IsSome(config.json) THEN throws("no JSON configuration")
            ELSE created("json")
      [] config.type = "mongodb" ->
            IF ~IsSome(config.mongodb) THEN throws("no MongoDB configuration")
            ELSE IF validUri(Get(config.mongodb).connectionString)
            THEN created("mongodb")
            ELSE throws("MongoClient")
      [] config.type = "paginated-graph" ->
            IF ~IsSome(config.paginatedGraph) THEN throws("no configuration")
            ELSE IF ~isKnowledgeGraph(data)
            THEN throws("only KnowledgeGraph")
            ELSE IF validUri(Get(config.paginatedGraph).connectionString)
            THEN created("paginated-graph")
            ELSE throws("MongoClient")
      [] OTHER -> throws("Unknown storage type")

\* createFromEnvironment(defaultData)
createFromEnvironment(e) ==
    LET storageType == Get(orEnv(e["MCP_STORAGE_TYPE"], Some("json")))
        connectionString ==
            Get(orEnv(e["MONGODB_CONNECTION_STRING"],
                      orEnv(e["MCP_MONGODB_URI"],
                            Some("mongodb://localhost:27017/mcp-data"))))
        config ==
            IF storageType = "mongodb"
            THEN unifiedConfig(storageType, Absent,
                               Some([connectionString |-> connectionString]),
                               Absent)
            ELSE unifiedConfig(storageType, Some([baseDir |-> "./storage_files"]),
                               Absent, Absent)
    IN createUserStorage(config, defaultData)

\* createAutoDetected(defaultData)
createAutoDetected(e) ==
    LET mongoUri == orEnv(e["MONGODB_CONNECTION_STRING"],
                          orEnv(e["MCP_MONGODB_URI"], e["MONGO_URI"]))
        fromEnvironment == createFromEnvironment(e)
        config == unifiedConfig("json", Some([baseDir |-> "./storage_files"]),
                                Absent, Absent)
    IN IF IsSome(mongoUri) /\ Get(mongoUri) # "" /\ fromEnvironment.thrown = "none"
       THEN Get(fromEnvironment.type)
       ELSE Get(createUserStorage(config, defaultData).type)

\* StorageConfigUtils.validateConfig(config)
validateConfig(config) ==
    IF config.type = "" THEN FALSE
    ELSE IF config.type = "mongodb"
            /\ ~(IsSome(config.mongodb)
                  /\ Get(config.mongodb).connectionString # "")
    THEN FALSE
    ELSE IF config.type = "json"
            /\ ~(IsSome(config.json) /\ Get(config.json).baseDir # "")
    THEN FALSE
    ELSE TRUE

\* The configurations validateConfig and createUserStorage are called with
ConfigInputs ==
    {unifiedConfig(type, json, mongodb, paginatedGraph) :
        type \in {"", "json", "mongodb", "paginated-graph"},
        json \in {Absent, Some([baseDir |-> ""]), Some([baseDir |-> "./d"])},
        mongodb \in {Absent} \cup {Some([connectionString |-> c]) :
                                      c \in {"", "mongodb://h", "bad"}},
        paginatedGraph \in {Absent, Some([connectionString |-> "mongodb://h"])}}

\* process.env[name] = value, or delete process.env[name]
setEnv(name, value) ==
    /\ env' = [env EXCEPT ![name] = value]
    /\ UNCHANGED <<files, jsonCalls, collection, mongoIsConnected, mongoConnect,
                   flatOp, saved, storage>>
    /\ UNCHANGED graphVars

\* StorageFactory.createAutoDetected(defaultData) is called
createAutoDetectedCall ==
    /\ storage' = Some([type |-> createAutoDetected(env), env |-> env])
    /\ UNCHANGED <<files, jsonCalls, collection, mongoIsConnected, mongoConnect,
                   flatOp, saved, env>>
    /\ UNCHANGED graphVars

\* StorageConfigUtils.validateConfig(config) is called
validateConfigCall(config) ==
    /\ flatOp' = [NoFlatOp EXCEPT !.op = "validateConfig",
                                  !.data = Some(config),
                                  !.result = Some(validateConfig(config))]
    /\ UNCHANGED <<files, jsonCalls, collection, mongoIsConnected, mongoConnect,
                   saved, env, storage>>
    /\ UNCHANGED graphVars

\* StorageFactory.createUserStorage(config, {entities: [], relations: []})
\* is called
createUserStorageCall(config) ==
    /\ LET result == createUserStorage(config, emptyGraph)
       IN flatOp' = [NoFlatOp EXCEPT !.op = "createUserStorage",
                                     !.data = Some(config),
                                     !.result = Some(result),
                                     !.thrown = result.thrown # "none"]
    /\ UNCHANGED <<files, jsonCalls, collection, mongoIsConnected, mongoConnect,
                   saved, env, storage>>
    /\ UNCHANGED graphVars

----------------------------------------------------------------------------
(* cleanup() *)

\* entitiesCollection.distinct('entityId'): the ids of the entities of every
\* user
distinctEntityId(ents) == {d.entityId : d \in ents}

\* The filter of cleanup's deleteMany on the document d
orphanedFilter(ids, d) == d.fromEntityId \notin ids \/ d.toEntityId \notin ids

\* cleanup(), with no other operation between its store calls: the orphaned
\* relations are removed and a refresh is scheduled for every listed user.
\* It may be the call that follows the last of the MaxOps other calls.
cleanup ==
    /\ nOps <= MaxOps
    /\ \A u \in Users : calls[u] = Idle
    /\ Len(immediates) + Cardinality(listUsers(entities)) <= MaxPending
    /\ connect
    /\ LET ids == distinctEntityId(entities)
           hits == {d \in relations : orphanedFilter(ids, d)}
       IN /\ relations' = relations \ hits
          /\ lastOp' = [NoOp EXCEPT !.op = "cleanup", !.now = clock,
                                    !.deleted = Cardinality(hits)]
    /\ immediates' = immediates \o toArray(listUsers(entities))
    /\ nOps' = nOps + 1
    /\ UNCHANGED <<entities, index, clock, refreshes, calls, cleared>>
    /\ UNCHANGED <<traversals, connects>>
    /\ UNCHANGED flatVars

----------------------------------------------------------------------------
(* JsonUserStorage: clearForUser when unlink rejects, and existsForUser *)

\* existsForUser on the files fs: fs.access(filePath) resolves
jsonExistsForUser(fs, userId) == IsSome(fs[userId].data)

\* clearForUser(userId) when fs.unlink rejects for a file that exists (it is
\* in use, or may not be removed): every error of unlink is ignored, the
\* files in kept stay and clearForUser returns
jsonClearFails(userId) ==
    /\ jsonCalls[userId].pc = "idle"
    /\ \E kept \in (SUBSET {"data", "backup"}) \ {{}} :
          /\ "data" \in kept => IsSome(files[userId].data)
          /\ "backup" \in kept => IsSome(files[userId].backup)
          /\ files' = [files EXCEPT
                          ![userId].data = IF "data" \in kept THEN @ ELSE Absent,
                          ![userId].backup = IF "backup" \in kept THEN @ ELSE Absent]
    /\ saved' = [saved EXCEPT !.json[userId] = Absent]
    /\ flatOp' = [NoFlatOp EXCEPT !.op = "json.clearForUser", !.userId = userId,
                                  !.cleanup = "failed"]
    /\ UNCHANGED <<jsonCalls, collection, mongoIsConnected, mongoConnect, env,
                   storage>>
    /\ UNCHANGED graphVars

\* existsForUser(userId)
jsonExists(userId) ==
    /\ flatOp' = [NoFlatOp EXCEPT !.op = "json.existsForUser", !.userId = userId,
                                  !.result =
                                      Some(jsBoolean(jsonExistsForUser(files, userId)))]
    /\ UNCHANGED <<files, jsonCalls, saved, collection, mongoIsConnected,
                   mongoConnect, env, storage>>
    /\ UNCHANGED graphVars

----------------------------------------------------------------------------
(* generateSummary: the queries of Promise.all answered at different times *)

\* generateSummary sends countDocuments on the entities, countDocuments on
\* the relations and the aggregation together and awaits the three answers.
\* refreshGenerate is the case in which the store answers the three from one
\* state; here the store answers the two counts of the refresh i later than
\* its aggregation, from the state it is in by then.
refreshCountDocuments(i) ==
    /\ i \in 1..Len(refreshes)
    /\ LET userId == refreshes[i].userId
       IN /\ refreshes' =
                [refreshes EXCEPT
                    ![i].summary.totalEntities =
                        Cardinality({d \in entities : d.userId = userId}),
                    ![i].summary.totalRelations =
                        Cardinality({d \in relations : d.userId = userId})]
          /\ lastOp' = [NoOp EXCEPT !.op = "generateSummary.countDocuments",
                                    !.userId = userId, !.now = clock]
    /\ UNCHANGED <<entities, relations, index, isConnected, clock, immediates,
                   calls, nOps>>
    /\ UNCHANGED <<cleared, traversals, connects>>
    /\ UNCHANGED flatVars

----------------------------------------------------------------------------
(* JsonUserStorage.saveForUser of a second caller for the same user *)

\* The text the call in progress of a caller writes.  The calls of a user
\* write it to the one temp path of the user, getTempFilePath(userId).
textOf(caller) ==
    stringify(documentData(userOf(caller), jsonCalls[caller].data, clock))

\* The steps of the second caller change nothing but the files, its own
\* position and the history
secondFrame ==
    /\ UNCHANGED <<collection, mongoIsConnected, mongoConnect, env, storage>>
    /\ UNCHANGED graphVars

\* saveForUser(userId, data) is called by the second caller
secondSaveForUser(caller, data) ==
    /\ jsonCalls[caller].pc = "idle"
    /\ jsonCalls' = [jsonCalls EXCEPT ![caller] =
                        [pc |-> "mkdir", data |-> data,
                         before |-> files[userOf(caller)].data]]
    /\ saved' = [saved EXCEPT !.json[userOf(caller)] = Absent]
    /\ flatOp' = [NoFlatOp EXCEPT !.op = "json.saveForUser.call",
                                  !.userId = caller, !.data = Some(data)]
    /\ UNCHANGED files
    /\ secondFrame

\* fs.mkdir has resolved
secondMkdir(caller) ==
    /\ jsonCalls[caller].pc = "mkdir"
    /\ jsonCalls' = [jsonCalls EXCEPT ![caller].pc = "copyFile"]
    /\ flatOp' = [NoFlatOp EXCEPT !.op = "json.saveForUser.mkdir",
                                  !.userId = caller]
    /\ UNCHANGED <<files, saved>>
    /\ secondFrame

\* if (backupEnabled && existsForUser(userId)) copyFile(filePath, backupPath)
\* has resolved
secondCopyFile(caller) ==
    /\ jsonCalls[caller].pc = "copyFile"
    /\ LET userId == userOf(caller)
       IN files' = IF backupEnabled /\ IsSome(files[userId].data)
                   THEN [files EXCEPT ![userId].backup = files[userId].data]
                   ELSE files
    /\ jsonCalls' = [jsonCalls EXCEPT ![caller].pc = "writeFile"]
    /\ flatOp' = [NoFlatOp EXCEPT !.op = "json.saveForUser.copyFile",
                                  !.userId = caller]
    /\ UNCHANGED saved
    /\ secondFrame

\* fs.writeFile(tempPath, jsonContent) has resolved
secondWriteFile(caller) ==
    /\ jsonCalls[caller].pc = "writeFile"
    /\ files' = [files EXCEPT ![userOf(caller)].temp = Some(textOf(caller))]
    /\ jsonCalls' = [jsonCalls EXCEPT ![caller].pc = "rename"]
    /\ flatOp' = [NoFlatOp EXCEPT !.op = "json.saveForUser.writeFile",
                                  !.userId = caller]
    /\ UNCHANGED saved
    /\ secondFrame

\* fs.rename(tempPath, filePath) has resolved: the temp file was there
secondRename(caller) ==
    /\ jsonCalls[caller].pc = "rename"
    /\ IsSome(files[userOf(caller)].temp)
    /\ files' = rename(files, userOf(caller))
    /\ jsonCalls' = [jsonCalls EXCEPT ![caller].pc = "unlink"]
    /\ flatOp' = [NoFlatOp EXCEPT !.op = "json.saveForUser.rename",
                                  !.userId = caller]
    /\ UNCHANGED saved
    /\ secondFrame

\* fs.rename has rejected with ENOENT: there is no temp file
secondRenameFails(caller) ==
    /\ jsonCalls[caller].pc = "rename"
    /\ ~IsSome(files[userOf(caller)].temp)
    /\ jsonCalls' = [jsonCalls EXCEPT ![caller].pc = "catch"]
    /\ flatOp' = [NoFlatOp EXCEPT !.op = "json.saveForUser.rename",
                                  !.userId = caller, !.thrown = TRUE]
    /\ UNCHANGED <<files, saved>>
    /\ secondFrame

\* unlink(backupPath), and saveForUser returns
secondUnlinkBackup(caller) ==
    /\ jsonCalls[caller].pc = "unlink"
    /\ files' = IF backupEnabled
                THEN [files EXCEPT ![userOf(caller)].backup = Absent]
                ELSE files
    /\ saved' = [saved EXCEPT !.json[userOf(caller)] = Some(jsonCalls[caller].data)]
    /\ flatOp' = [NoFlatOp EXCEPT !.op = "json.saveForUser",
                                  !.userId = caller,
                                  !.data = Some(jsonCalls[caller].data),
                                  !.before = jsonCalls[caller].before]
    /\ jsonCalls' = [jsonCalls EXCEPT ![caller] = JsonIdle]
    /\ secondFrame

\* catch (error): try { unlink(tempPath) } catch { ignore }, then throw
secondCatch(caller) ==
    /\ jsonCalls[caller].pc = "catch"
    /\ LET userId == userOf(caller)
           found == IF IsSome(files[userId].temp) THEN "removed" ELSE "absent"
       IN /\ files' = [files EXCEPT ![userId].temp = Absent]
          /\ flatOp' = [NoFlatOp EXCEPT !.op = "json.saveForUser",
                                        !.userId = caller, !.thrown = TRUE,
                                        !.data = Some(jsonCalls[caller].data),
                                        !.before = jsonCalls[caller].before,
                                        !.cleanup = found]
    /\ jsonCalls' = [jsonCalls EXCEPT ![caller] = JsonIdle]
    /\ UNCHANGED saved
    /\ secondFrame

----------------------------------------------------------------------------
(* Specifications *)

EntityWrites ==
    \/ \E in \in SaveEntityInputs : saveEntity(in[1], in[2])
    \/ \E es \in BatchInputs : saveEntitiesBatch("u1", es)
    \/ \E u \in Users, id \in EntityIds : deleteEntity(u, id)
    \/ \E u \in Users : deleteEntityCascade(u)

RelationWrites ==
    \/ \E in \in SaveRelationInputs : saveRelation(in[1], in[2])
    \/ \E in \in DeleteRelationInputs : deleteRelation(in[1], in[2], in[3])

FacadeWrites ==
    \/ \E u \in Users, g \in GraphInputs : saveForUser(u, g)
    \/ \E u \in Users : saveForUserRelation(u)

Clears ==
    \/ \E u \in Users, p \in ClearParts : clearForUser(u, p)
    \/ \E u \in Users, p \in ClearParts : clearForUserNext(u, p)

Queries ==
    \E u \in Users, id \in EntityIds, d \in 0..MaxDepth : getConnected(u, id, d)

Refreshes ==
    \/ refreshGenerate
    \/ \E i \in 1..MaxRefreshing : refreshReplace(i)

\* No summary refresh is scheduled or running
Quiet == Len(immediates) = 0 /\ Len(refreshes) = 0

\* Every operation of the storage, the summary refreshes included.  A query
\* reads neither the summary collection nor the scheduled refreshes, and the
\* refreshes write the summary collection alone, so every result a query can
\* return it can return once the refreshes have run: the queries are taken
\* in the quiet states.
Next ==
    \/ EntityWrites
    \/ RelationWrites
    \/ FacadeWrites
    \/ Clears
    \/ Refreshes
    \/ (Quiet /\ Queries)

Spec == Init /\ [][Next]_vars

\* The operations that write entities, while the scheduled summary refreshes
\* have not run yet (they write the summary collection alone)
NextEntities ==
    \/ EntityWrites
    \/ FacadeWrites

SpecEntities == Init /\ [][NextEntities]_vars

\* The operations that write relations, while the scheduled summary
\* refreshes have not run yet
NextRelations ==
    \/ \E u \in Users, e \in GraphEntities : saveEntity(u, e)
    \/ \E u \in Users, id \in EntityIds : deleteEntity(u, id)
    \/ \E u \in Users : deleteEntityCascade(u)
    \/ RelationWrites
    \/ FacadeWrites

SpecRelations == Init /\ [][NextRelations]_vars

\* The traversal over the graphs that saveEntity, saveRelation and
\* deleteEntity build
NextTraversal ==
    \/ \E u \in Users, e \in GraphEntities : saveEntity(u, e)
    \/ \E u \in Users, id \in EntityIds : deleteEntity(u, id)
    \/ \E u \in Users : deleteEntityCascade(u)
    \/ \E in \in SaveRelationInputs : saveRelation(in[1], in[2])
    \/ Queries

SpecTraversal == Init /\ [][NextTraversal]_vars

\* The user u1 has stored nothing yet
FirstImport ==
    /\ {d \in entities : d.userId = "u1"} = {}
    /\ {d \in relations : d.userId = "u1"} = {}

\* The traversal over the graphs u1 imports with saveForUser into its empty
\* store, next to the relations the other tenant u2 saves on the same ids
NextGraph ==
    \/ (FirstImport /\ \E g \in TraversalGraphs : saveForUser("u1", g))
    \/ saveForUserRelation("u1")
    \/ \E r \in OtherTenantRelations : saveRelation("u2", r)
    \/ \E id \in TraversalIds, d \in TraversalDepths : getConnected("u1", id, d)

SpecGraph == Init /\ [][NextGraph]_vars

\* The operations that call connect() on a storage not yet connected
NextConnect ==
    \/ \E c \in Callers : connectCall(c)
    \/ \E c \in Callers : connectResume(c)
    \/ \E c \in Callers : connectFails(c)
    \/ \E c \in Callers : connectReturn(c)

SpecConnect == Init /\ [][NextConnect]_vars

\* The entity A, with no field optional supplied
SummaryEntities == {e \in GraphEntities : e.entityId = <<"A">>}

\* The five operations that schedule a summary refresh, on the entities A
\* and B and the relation B -w-> A, the refreshes, which the store may fail, and the
\* summary query
NextSummary ==
    \/ \E u \in Users, e \in GraphEntities : saveEntity(u, e)
    \/ \E es \in SeqsUpTo(SummaryEntities, 1) : saveEntitiesBatch("u1", es)
    \/ deleteEntity("u1", <<"A">>)
    \/ deleteEntityCascade("u1")
    \/ \E r \in OtherTenantRelations : saveRelation("u1", r)
    \/ \E r \in OtherTenantRelations :
           deleteRelation("u1", r.fromEntityId, r.toEntityId)
    \/ Refreshes
    \/ refreshGenerateFails
    \/ \E i \in 1..MaxRefreshing : refreshReplaceFails(i)
    \/ \E u \in Users : getSummary(u)

SpecSummary == Init /\ [][NextSummary]_vars

\* The while loop of getConnectedEntities one store call at a time, on the
\* graphs u1 imports; no import is in progress during a call
NextLoop ==
    \/ (FirstImport /\ ~traversals["u1"].active /\
            \E g \in LoopGraphs : saveForUser("u1", g))
    \/ saveForUserRelation("u1")
    \/ (calls["u1"] = Idle /\
            \E id \in TraversalIds, d \in TraversalDepths :
                getConnectedStart("u1", id, d))
    \/ getConnectedFetch("u1")
    \/ getConnectedExpand("u1")
    \/ getConnectedReturn("u1")

SpecLoop == Init /\ [][NextLoop]_vars

\* The next step of the call in its loop: at most one of the three is
\* enabled
getConnectedNext(userId) ==
    \/ getConnectedFetch(userId)
    \/ getConnectedExpand(userId)
    \/ getConnectedReturn(userId)

\* The event loop resumes the call when the store has answered, and the store
\* answers every request
FairLoop == SpecLoop /\ WF_vars(getConnectedNext("u1"))

\* The connect() calls of the two storages that connect to MongoDB
NextRetry ==
    \/ mongoConnectCall
    \/ mongoClientConnect
    \/ mongoClientConnectFails
    \/ mongoBackoff
    \/ mongoConnectDone
    \/ mongoDisconnect
    \/ \E c \in Callers : connectCall(c)
    \/ \E c \in Callers : connectResume(c)
    \/ \E c \in Callers : connectFails(c)
    \/ \E c \in Callers : connectReturn(c)

SpecRetry == Init /\ [][NextRetry]_vars

\* Batches of u1 next to single saves of the other tenant
NextBatch ==
    \/ \E es \in BatchOfBothInputs : saveEntitiesBatch("u1", es)
    \/ \E e \in GraphEntities : saveEntity("u2", e)

SpecBatch == Init /\ [][NextBatch]_vars

\* The writes of entities and relations, with a cascade that may fail
NextCascade ==
    \/ NextRelations
    \/ \E u \in Users : deleteEntityCascadeFails(u)

SpecCascade == Init /\ [][NextCascade]_vars

\* Saves of well-formed and of malformed entities
NextValidation ==
    \/ \E e \in ValidationEntities : saveEntity("u1", e)
    \/ \E es \in SeqsUpTo(ValidationEntities, MaxBatch) :
          saveEntitiesBatch("u1", es)

SpecValidation == Init /\ [][NextValidation]_vars

\* The operations on the summary, with the queries on the users
NextUsers ==
    \/ NextSummary
    \/ listUsersCall
    \/ \E u \in Users : existsForUserCall(u)

SpecUsers == Init /\ [][NextUsers]_vars

\* The process works on the one storage the factory has given it: the files
\* are used when the collection never was, and the other way round
OnFiles == collection = {} /\ ~mongoIsConnected /\ mongoConnect = NoMongoConnect
OnCollection ==
    /\ files = [u \in Users |-> NoFiles]
    /\ jsonCalls = [c \in JsonCallers |-> JsonIdle]
    /\ flatOp.op \notin {"json.loadForUser", "json.clearForUser"}

\* JsonUserStorage with no failure of the file system
JsonCalls ==
    \/ \E in \in JsonSaveInputs : jsonSaveForUser(in[1], in[2])
    \/ \E u \in Users : jsonMkdir(u)
    \/ \E u \in Users : jsonCopyFile(u)
    \/ \E u \in Users : jsonWriteFile(u)
    \/ \E u \in Users : jsonRename(u)
    \/ \E u \in Users : jsonUnlinkBackup(u)
    \/ \E u \in Users : jsonLoad(u)
    \/ \E u \in Users : jsonClear(u)

\* MongodbUserStorage with no failure of the connection
MongoCalls ==
    \/ mongoConnectCall
    \/ mongoClientConnect
    \/ mongoConnectDone
    \/ \E in \in JsonSaveInputs : mongoSaveForUser(in[1], in[2])
    \/ \E u \in Users : mongoLoad(u)
    \/ \E u \in Users : mongoClear(u)

\* saveForUser, loadForUser and clearForUser of the one flat storage or of
\* the other
NextFlat ==
    \/ OnFiles /\ JsonCalls
    \/ OnCollection /\ MongoCalls

SpecFlat == Init /\ [][NextFlat]_vars

\* What saveForUser is called with when the file system may fail
AtomicInputs == {<<"u1", jsNumber(1)>>, <<"u1", jsString(<<"s">>)>>}

\* JsonUserStorage with a file system of which every call may fail
NextAtomic ==
    \/ \E in \in AtomicInputs : jsonSaveForUser(in[1], in[2])
    \/ \E u \in Users : jsonMkdir(u)
    \/ \E u \in Users : jsonMkdirFails(u)
    \/ \E u \in Users : jsonCopyFile(u)
    \/ \E u \in Users : jsonCopyFileFails(u)
    \/ \E u \in Users : jsonWriteFile(u)
    \/ \E u \in Users : jsonWriteFileFails(u)
    \/ \E u \in Users : jsonRename(u)
    \/ \E u \in Users : jsonRenameFails(u)
    \/ \E u \in Users : jsonUnlinkBackup(u)
    \/ \E u \in Users : jsonUnlinkBackupFails(u)
    \/ \E u \in Users : jsonCatch(u)
    \/ jsonLoad("u1")
    \/ jsonClear("u1")

SpecAtomic == Init /\ [][NextAtomic]_vars

\* MongodbUserStorage with the encrypted operations
NextEncrypted ==
    \/ mongoConnectCall
    \/ mongoClientConnect
    \/ mongoConnectDone
    \/ \E in \in EncryptedInputs : saveEncrypted(in[1], in[2], in[3])
    \/ \E u \in Users, k \in KeyInputs : loadDecryptedCall(u, k)
    \/ \E in \in JsonSaveInputs : mongoSaveForUser(in[1], in[2])
    \/ \E u \in Users : mongoClear(u)

SpecEncrypted == Init /\ [][NextEncrypted]_vars

\* The factory under every environment
NextFactory ==
    \/ \E name \in EnvNames : \E value \in EnvValues(name) : setEnv(name, value)
    \/ createAutoDetectedCall

SpecFactory == Init /\ [][NextFactory]_vars

\* cleanup() on the entities and relations two tenants save and delete
NextCleanup ==
    \/ \E u \in Users, e \in GraphEntities : saveEntity(u, e)
    \/ \E u \in Users, id \in EntityIds : deleteEntity(u, id)
    \/ \E u \in Users : deleteEntityCascade(u)
    \/ \E in \in SaveRelationInputs : saveRelation(in[1], in[2])
    \/ FacadeWrites
    \/ cleanup

SpecCleanup == Init /\ [][NextCleanup]_vars

\* deleteEntity between its store calls, beside the writes of both tenants
\* and the summary refreshes
NextOrder ==
    \/ \E u \in Users, e \in GraphEntities : saveEntity(u, e)
    \/ \E u \in Users, r \in GraphRelations : saveRelation(u, r)
    \/ \E u \in Users, id \in EntityIds : deleteEntity(u, id)
    \/ \E u \in Users : deleteEntityCascade(u)
    \/ Refreshes

SpecOrder == Init /\ [][NextOrder]_vars

\* What saveForUser is called with when the files are loaded and cleared
ClearInputs ==
    {<<"u1", jsNumber(0)>>, <<"u1", jsNumber(1)>>, <<"u2", jsNumber(1)>>}

\* JsonUserStorage with the failures of the file system: saves that leave a
\* backup behind, loads, and clears whose unlink may reject.  The file
\* system fails for u1; the other user saves, loads and clears beside it.
NextClear ==
    \/ \E in \in ClearInputs : jsonSaveForUser(in[1], in[2])
    \/ \E u \in Users : jsonMkdir(u)
    \/ \E u \in Users : jsonCopyFile(u)
    \/ jsonCopyFileFails("u1")
    \/ \E u \in Users : jsonWriteFile(u)
    \/ \E u \in Users : jsonRename(u)
    \/ jsonRenameFails("u1")
    \/ \E u \in Users : jsonUnlinkBackup(u)
    \/ jsonUnlinkBackupFails("u1")
    \/ jsonCatch("u1")
    \/ \E u \in Users : jsonLoad(u)
    \/ \E u \in Users : jsonExists(u)
    \/ \E u \in Users : jsonClear(u)
    \/ jsonClearFails("u1")

SpecClear == Init /\ [][NextClear]_vars

\* The graphs saveForUser is called with on a store that holds entities and
\* relations already: at most MaxBatch entities and at most one relation
FacadeGraphs ==
    {[entities |-> es, relations |-> rs] :
        es \in SeqsUpTo(GraphEntities, MaxBatch),
        rs \in SeqsUpTo(GraphRelations, 1)}

\* The entities stored before saveForUser is called: those of the graphs,
\* and B with metadata supplied by its caller
FacadeEntities ==
    GraphEntities \cup
        {e \in EntityInputs : e.entityId = <<"B">> /\ IsSome(e.metadata)}

\* saveForUser of u1 after the saves of single entities and relations of
\* both tenants
NextFacade ==
    \/ \E u \in Users, e \in FacadeEntities : saveEntity(u, e)
    \/ \E u \in Users, r \in GraphRelations : saveRelation(u, r)
    \/ \E g \in FacadeGraphs : saveForUser("u1", g)
    \/ \E u \in Users : saveForUserRelation(u)

SpecFacade == Init /\ [][NextFacade]_vars

\* connect() of a storage created from the environment: the variable
\* MCP_MONGODB_RETRIES is set before the storage is created and used
NextConfig ==
    \/ (flatOp = NoFlatOp
          /\ \E value \in RetriesValues : setEnv("MCP_MONGODB_RETRIES", value))
    \/ mongoConnectCall
    \/ mongoClientConnect
    \/ mongoClientConnectFails
    \/ mongoBackoff
    \/ mongoConnectDone
    \/ mongoDisconnect

SpecConfig == Init /\ [][NextConfig]_vars

\* The summary refreshes beside the saves and deletes of entities, with the
\* queries of a refresh answered at different times
NextRace ==
    \/ \E u \in Users, e \in GraphEntities : saveEntity(u, e)
    \/ \E u \in Users, id \in EntityIds : deleteEntity(u, id)
    \/ \E u \in Users : deleteEntityCascade(u)
    \/ Refreshes
    \/ \E i \in 1..MaxRefreshing : refreshCountDocuments(i)
    \/ \E u \in Users : getSummary(u)

SpecRace == Init /\ [][NextRace]_vars

\* Two callers save for u1 at the same time, the first the number 0 and the
\* second the number 1, on a file system that fails only where a file is
\* missing
NextConcurrent ==
    \/ jsonSaveForUser("u1", jsNumber(0))
    \/ jsonMkdir("u1")
    \/ jsonCopyFile("u1")
    \/ jsonWriteFile("u1")
    \/ jsonRename("u1")
    \/ (~IsSome(files["u1"].temp) /\ jsonRenameFails("u1"))
    \/ jsonUnlinkBackup("u1")
    \/ (jsonCatch("u1") /\ flatOp'.cleanup # "failed")
    \/ secondSaveForUser(SecondCaller, jsNumber(1))
    \/ secondMkdir(SecondCaller)
    \/ secondCopyFile(SecondCaller)
    \/ secondWriteFile(SecondCaller)
    \/ secondRename(SecondCaller)
    \/ secondRenameFails(SecondCaller)
    \/ secondUnlinkBackup(SecondCaller)
    \/ secondCatch(SecondCaller)
    \/ jsonLoad("u1")

SpecConcurrent == Init /\ [][NextConcurrent]_vars

\* validateConfig and createUserStorage on every configuration
NextValidate ==
    \/ \E config \in ConfigInputs : validateConfigCall(config)
    \/ \E config \in ConfigInputs : createUserStorageCall(config)

SpecValidate == Init /\ [][NextValidate]_vars

----------------------------------------------------------------------------
(* Claims *)

\* The documents of a user for an entity id, and the relations of an
\* ordered pair
entityDocs(userId, entityId) ==
    {d \in entities : d.userId = userId /\ d.entityId = entityId}

pairDocs(fromEntityId, toEntityId) ==
    {d \in relations : d.fromEntityId = fromEntityId /\ d.toEntityId = toEntityId}

\* C1: in the state in which deleteEntity(u, E) returns, no stored relation
\* of u has E as fromEntityId or as toEntityId, and getRelations(u, E) is
\* empty.
C1_DeleteEntityCascades ==
    lastOp.op = "deleteEntity" =>
        /\ \A d \in relations :
              d.userId = lastOp.userId =>
                  /\ d.fromEntityId # lastOp.entityId
                  /\ d.toEntityId # lastOp.entityId
        /\ getRelations(relations, lastOp.userId, lastOp.entityId) = <<>>

\* deleteEntity has returned after its cascade removed two relations: one
\* leaving the entity and one entering it
C1_Witness ==
    lastOp.op = "deleteEntity" /\ lastOp.deleted >= 2

\* What a user sees: the graph loadForUser returns, the relations
\* getRelations returns for every id, and the summaries getUserSummary may
\* return (without their time stamp)
userView(userId) ==
    [entities |-> {d \in entities : d.userId = userId},
     relations |-> {d \in relations : d.userId = userId},
     loaded |-> loadForUser(entities, relations, userId),
     touching |-> [id \in EntityIds |-> getRelations(relations, userId, id)],
     summaries |-> {[totalEntities |-> m.totalEntities,
                     totalRelations |-> m.totalRelations,
                     entityTypes |-> m.entityTypes,
                     recentEntities |-> m.recentEntities] :
                       m \in getUserSummary(entities, relations, index, userId, clock)}]

\* C2: a step of an operation invoked with userId u1 changes nothing of what
\* another user u2 sees.
C2_UserIsolation ==
    [][\A u2 \in Users : lastOp'.userId # u2 => userView(u2)' = userView(u2)]_vars

\* C3: the relation collection holds at most one relation per ordered pair
\* (fromEntityId, toEntityId), and in the state in which saveRelation
\* returns the pair's one relation has the relationType just saved.
C3_OneEdgePerPair ==
    /\ \A d1, d2 \in relations :
          (d1.fromEntityId = d2.fromEntityId /\ d1.toEntityId = d2.toEntityId)
              => d1 = d2
    /\ lastOp.op = "saveRelation" =>
          LET relation == Get(lastOp.relation)
              hits == pairDocs(relation.fromEntityId, relation.toEntityId)
          IN /\ Cardinality(hits) = 1
             /\ \A d \in hits : d.relationType = relation.relationType

\* saveRelation has returned after replacing an edge of another type between
\* the same endpoints
C3_Witness ==
    /\ lastOp.op = "saveRelation"
    /\ IsSome(lastOp.prevRelation)
    /\ Get(lastOp.prevRelation).relationType # Get(lastOp.relation).relationType

\* C4: the entity collection holds at most one document per
\* (userId, entityId).
C4_OneEntityPerKey ==
    \A d1, d2 \in entities :
        (d1.userId = d2.userId /\ d1.entityId = d2.entityId) => d1 = d2

\* saveEntitiesBatch has returned from a batch that names one entityId twice
\* with different contents, while another user stores the same entityId
C4_Witness ==
    /\ lastOp.op = "saveEntitiesBatch"
    /\ Len(lastOp.entities) >= 2
    /\ lastOp.entities[1].entityId = lastOp.entities[2].entityId
    /\ lastOp.entities[1] # lastOp.entities[2]
    /\ \E d \in entities :
          d.userId # lastOp.userId /\ d.entityId = lastOp.entities[1].entityId

\* The entity saveEntity was called with, and what getEntity returns for it
\* in the state in which saveEntity returns
savedEntity == lastOp.entities[1]
fetchedEntity == getEntity(entities, lastOp.userId, lastOp.entityId)

\* The lowercase join of name, entityType, observations and tags: every part
\* in lower case, the parts separated by one space
expectedSearchText(name, entityType, observations, tags) ==
    LET parts == <<name, entityType>> \o observations \o tags
    IN join([i \in 1..Len(parts) |-> toLowerCase(parts[i])], <<" ">>)

\* The fields of the round trip that the claim and its amendment share
roundTripCommon(e, g) ==
    /\ g.entityId = e.entityId
    /\ g.name = e.name
    /\ g.entityType = e.entityType
    /\ g.observations = e.observations
    /\ g.searchText = Some(expectedSearchText(e.name, e.entityType, e.observations,
                                              OrElse(e.tags, <<>>)))
    /\ IsSome(g.metadata)
          => /\ IsSome(Get(g.metadata).updatedAt)
             /\ IsSome(lastOp.prevEntity)
                   => Get(Get(g.metadata).updatedAt)
                          >= Get(lastOp.prevEntity).metadata.updatedAt

\* C5 as stated: getEntity after saveEntity(u, e) returns e in every field
\* except searchText and metadata.updatedAt.
C5_RoundTripAllFields ==
    lastOp.op = "saveEntity" =>
        /\ IsSome(fetchedEntity)
        /\ LET e == savedEntity
               g == Get(fetchedEntity)
           IN /\ roundTripCommon(e, g)
              /\ g.tags = e.tags
              /\ IsSome(g.metadata) = IsSome(e.metadata)
              /\ IsSome(e.metadata) /\ IsSome(g.metadata)
                    => /\ Get(g.metadata).createdAt = Get(e.metadata).createdAt
                       /\ Get(g.metadata).source = Get(e.metadata).source

\* C5 as amended: getEntity after saveEntity(u, e) returns e in every field
\* except searchText (the lowercase join), metadata.updatedAt (at least the
\* value stored before), tags, which is the empty list when e has none, and
\* metadata, which is always present and whose createdAt is the time of the
\* save when e supplies none.
C5_RoundTrip ==
    lastOp.op = "saveEntity" =>
        /\ IsSome(fetchedEntity)
        /\ LET e == savedEntity
               g == Get(fetchedEntity)
           IN /\ roundTripCommon(e, g)
              /\ g.tags = Some(OrElse(e.tags, <<>>))
              /\ IsSome(g.metadata)
              /\ Get(g.metadata).createdAt =
                    IF IsSome(e.metadata) /\ IsSome(Get(e.metadata).createdAt)
                    THEN Get(e.metadata).createdAt
                    ELSE Some(lastOp.now)
              /\ Get(g.metadata).source =
                    IF IsSome(e.metadata) THEN Get(e.metadata).source ELSE Absent

\* saveEntity has returned from overwriting, at a later time, a stored entity
\* that has a source with an entity that has neither tags nor metadata
C5_Witness ==
    /\ lastOp.op = "saveEntity"
    /\ IsSome(lastOp.prevEntity)
    /\ IsSome(Get(lastOp.prevEntity).metadata.source)
    /\ Get(lastOp.prevEntity).metadata.updatedAt < lastOp.now
    /\ ~IsSome(savedEntity.tags)
    /\ ~IsSome(savedEntity.metadata)

\* C6: in the state in which saveEntity(u, e) returns, the stored createdAt
\* is the createdAt stored before the call when (u, e.entityId) was stored,
\* and the time of the save when it was not.
C6_CreatedAtPreserved ==
    lastOp.op = "saveEntity" =>
        \A d \in entityDocs(lastOp.userId, lastOp.entityId) :
            d.metadata.createdAt =
                IF IsSome(lastOp.prevEntity)
                THEN Get(lastOp.prevEntity).metadata.createdAt
                ELSE lastOp.now

\* C7: in the state in which saveRelation(u, r) returns, the stored createdAt
\* is the createdAt stored before the call when an edge of the ordered pair
\* was stored, and the time of the save when none was.
C7_RelationCreatedAtPreserved ==
    lastOp.op = "saveRelation" =>
        \A d \in pairDocs(Get(lastOp.relation).fromEntityId,
                          Get(lastOp.relation).toEntityId) :
            d.metadata.createdAt =
                IF IsSome(lastOp.prevRelation)
                THEN Get(lastOp.prevRelation).metadata.createdAt
                ELSE lastOp.now

\* C8: every stored entity's searchText is the lowercase join of its name,
\* entityType, observations and tags, no stored updatedAt is later than the
\* clock, and in the state in which saveEntity or saveEntitiesBatch returns
\* the updatedAt of every entity it saved is the time of that save, whatever
\* searchText and updatedAt the caller supplied.
C8_SearchTextAndUpdatedAtRecomputed ==
    /\ \A d \in entities :
          /\ d.searchText =
                expectedSearchText(d.name, d.entityType, d.observations, d.tags)
          /\ d.metadata.updatedAt <= clock
    /\ lastOp.op \in {"saveEntity", "saveEntitiesBatch"} =>
          \A i \in 1..Len(lastOp.entities) :
              /\ entityDocs(lastOp.userId, lastOp.entities[i].entityId) # {}
              /\ \A d \in entityDocs(lastOp.userId, lastOp.entities[i].entityId) :
                    d.metadata.updatedAt = lastOp.now

\* saveEntitiesBatch has returned from saving an entity whose caller
\* supplied a searchText and an updatedAt other than the time of the save
C8_Witness ==
    /\ lastOp.op = "saveEntitiesBatch"
    /\ \E i \in 1..Len(lastOp.entities) :
          LET e == lastOp.entities[i]
          IN /\ IsSome(e.searchText)
             /\ Get(e.searchText) #
                    expectedSearchText(e.name, e.entityType, e.observations,
                                       OrElse(e.tags, <<>>))
             /\ IsSome(e.metadata)
             /\ IsSome(Get(e.metadata).updatedAt)
             /\ Get(Get(e.metadata).updatedAt) # lastOp.now

\* C9: a save of the triple (fromEntityId, relationType, toEntityId) that an
\* earlier save stored stores the relationId the earlier save stored,
\* whether the saves went through saveRelation or through saveForUser and
\* whatever relationId the callers supplied.
C9_RelationIdDeterministic ==
    (/\ lastOp.op = "saveRelation"
     /\ IsSome(lastOp.prevRelation)
     /\ Get(lastOp.prevRelation).relationType = Get(lastOp.relation).relationType)
        => \A d \in pairDocs(Get(lastOp.relation).fromEntityId,
                             Get(lastOp.relation).toEntityId) :
               d.relationId = Get(lastOp.prevRelation).relationId

\* C10: getConnectedEntities(u, X, 0) returns the entity (u, X) alone when it
\* is stored and no entity when it is not, and returns no relation.
C10_DepthZero ==
    (lastOp.op = "getConnectedEntities" /\ lastOp.depth = 0) =>
        LET graph == Get(lastOp.result)
            docs == entityDocs(lastOp.userId, lastOp.entityId)
        IN /\ graph.relations = <<>>
           /\ docs = {} => graph.entities = <<>>
           /\ docs # {} =>
                 /\ Len(graph.entities) = 1
                 /\ \E d \in docs : graph.entities[1] = documentToEntity(d)

\* getConnectedEntities(u, X, 0) has returned for a stored entity X that has
\* a relation entering it and a relation leaving it
C10_Witness ==
    /\ lastOp.op = "getConnectedEntities"
    /\ lastOp.depth = 0
    /\ entityDocs(lastOp.userId, lastOp.entityId) # {}
    /\ \E d \in relations :
          d.userId = lastOp.userId /\ d.fromEntityId = lastOp.entityId
    /\ \E d \in relations :
          d.userId = lastOp.userId /\ d.toEntityId = lastOp.entityId

----------------------------------------------------------------------------
(* Claims on the traversal *)

Range(f) == {f[i] : i \in DOMAIN f}

\* The last step was a getConnectedEntities call, and what it returned
queried == lastOp.op = "getConnectedEntities"
queryResult == Get(lastOp.result)

\* What is stored for the user of the query, as the read operations return it
storedEntities(userId) ==
    {documentToEntity(d) : d \in {x \in entities : x.userId = userId}}

storedRelations(userId) ==
    {documentToRelation(d) : d \in {x \in relations : x.userId = userId}}

touches(r, ids) == r.fromEntityId \in ids \/ r.toEntityId \in ids

\* The ids at undirected distance at most k from the id X over the relations
\* of the user
RECURSIVE withinDistance(_, _, _)
withinDistance(userId, X, k) ==
    IF k = 0 THEN {X}
    ELSE LET near == withinDistance(userId, X, k - 1)
             reached == {r \in storedRelations(userId) : touches(r, near)}
         IN near \cup {r.fromEntityId : r \in reached}
                 \cup {r.toEntityId : r \in reached}

\* C11: on a store that does not change during the call,
\* getConnectedEntities(u, X, 1) returns X when it is stored, every stored
\* entity of u at the other end of a relation of u touching X, every relation
\* of u touching X, and no relation of which neither endpoint is X.
C11_DepthOne ==
    (queried /\ lastOp.depth = 1) =>
        LET u == lastOp.userId
            X == lastOp.entityId
            touching == {r \in storedRelations(u) : touches(r, {X})}
            ends == {X} \cup {r.fromEntityId : r \in touching}
                        \cup {r.toEntityId : r \in touching}
        IN /\ \A e \in storedEntities(u) :
                 e.entityId \in ends => e \in Range(queryResult.entities)
           /\ \A r \in touching : r \in Range(queryResult.relations)
           /\ \A r \in Range(queryResult.relations) : touches(r, {X})
           /\ \A r \in Range(queryResult.relations) : r \in storedRelations(u)

\* A query at depth 1 from a stored X with two stored neighbours that a
\* relation joins, next to a relation of the other tenant touching X
C11_Witness ==
    /\ queried /\ lastOp.depth = 1
    /\ LET u == lastOp.userId
           X == lastOp.entityId
       IN /\ \E e \in storedEntities(u) : e.entityId = X
          /\ Len(queryResult.entities) = 3
          /\ Len(queryResult.relations) = 2
          /\ \E r \in storedRelations(u) :
                /\ ~touches(r, {X})
                /\ r.fromEntityId # r.toEntityId
          /\ \E d \in relations : d.userId # u /\ touches(d, {X})

\* C12: when the entity (u, X) is not stored, getConnectedEntities(u, X,
\* depth) returns no entity and no relation, whatever the depth.
C12_MissingStartIsEmpty ==
    (queried /\ ~\E e \in storedEntities(lastOp.userId) :
                     e.entityId = lastOp.entityId)
        => /\ queryResult.entities = <<>>
           /\ queryResult.relations = <<>>

\* C13: on a store that does not change during the call, the entities
\* getConnectedEntities(u, X, d) returns are the stored entities of u at
\* distance at most d from X, each once, and the relations it returns are
\* the relations of u touching an id at distance less than d.
C13_ReferenceResult ==
    queried =>
        LET u == lastOp.userId
            X == lastOp.entityId
            d == lastOp.depth
            ids == withinDistance(u, X, d)
            inner == IF d = 0 THEN {} ELSE withinDistance(u, X, d - 1)
        IN /\ Range(queryResult.entities) =
                  {e \in storedEntities(u) : e.entityId \in ids}
           /\ \A i, j \in 1..Len(queryResult.entities) :
                  i # j => queryResult.entities[i] # queryResult.entities[j]
           /\ Range(queryResult.relations) =
                  {r \in storedRelations(u) : touches(r, inner)}

\* A query at depth 2 that returns an entity at distance 2, with a relation
\* stored that touches ids at distance 2 alone
C13_Witness ==
    /\ queried /\ lastOp.depth = 2
    /\ LET u == lastOp.userId
           X == lastOp.entityId
           near == withinDistance(u, X, 1)
           far == withinDistance(u, X, 2) \ near
       IN /\ \E e \in Range(queryResult.entities) : e.entityId \in far
          /\ \E r \in storedRelations(u) : ~touches(r, near)
          /\ Len(queryResult.relations) >= 2

\* C14: getConnectedEntities goes on to fetch each entity id at most once,
\* and every call returns: its queue empties.
C14_Terminates ==
    /\ [](\A u \in Users :
            \A i, j \in 1..Len(traversals[u].expanded) :
               i # j => traversals[u].expanded[i] # traversals[u].expanded[j])
    /\ traversals["u1"].active ~> ~traversals["u1"].active

\* A call at depth 2 over the stored cycle A -> B -> C -> A has returned the
\* three entities, and a relation twice
C14_Witness ==
    /\ lastOp.op = "getConnectedEntities.return"
    /\ lastOp.depth = 2
    /\ Len(queryResult.entities) = 3
    /\ Len(queryResult.relations) > Cardinality(Range(queryResult.relations))
    /\ \A p \in {<< <<"A">>, <<"B">> >>, << <<"B">>, <<"C">> >>, << <<"C">>, <<"A">> >>} :
          \E r \in storedRelations(lastOp.userId) :
             r.fromEntityId = p[1] /\ r.toEntityId = p[2]

----------------------------------------------------------------------------
(* Claims on the summary *)

\* No operation of the user is in progress, and no summary refresh of the
\* user is scheduled or running
converged(userId) ==
    /\ calls[userId] = Idle
    /\ \A i \in 1..Len(immediates) : immediates[i] # userId
    /\ \A i \in 1..Len(refreshes) : refreshes[i].userId # userId

countEntities(userId) == Cardinality({d \in entities : d.userId = userId})
countRelations(userId) == Cardinality({d \in relations : d.userId = userId})

\* C15: once no mutation of u is in progress and every refresh scheduled
\* for u has run, getUserSummary(u) gives the number of stored entities of u
\* as totalEntities and the number of stored relations of u as
\* totalRelations.
C15_SummaryConverges ==
    \A u \in Users :
        converged(u) =>
            \A summary \in getUserSummary(entities, relations, index, u, clock) :
                /\ summary.totalEntities = countEntities(u)
                /\ summary.totalRelations = countRelations(u)

\* The operations that change entities or relations and schedule a refresh
MutatingOps ==
    {"saveEntity", "saveEntitiesBatch", "deleteEntity", "saveRelation",
     "deleteRelation"}

\* C16: a mutating operation returns with its summary refresh scheduled as
\* a later task, not run: in the step in which it returns, the callback is
\* appended to the scheduled ones (none for an empty batch), no refresh
\* starts or ends and the summary collection is not written.
C16_WriteDoesNotWaitForRefresh ==
    [][lastOp'.op \in MutatingOps =>
          /\ index' = index
          /\ refreshes' = refreshes
          /\ IF lastOp'.op = "deleteEntity"
             THEN calls'[lastOp'.userId] = Idle
             ELSE calls' = calls
          /\ IF lastOp'.op = "saveEntitiesBatch" /\ lastOp'.entities = <<>>
             THEN immediates' = immediates
             ELSE immediates' = Append(immediates, lastOp'.userId)]_vars

\* deleteEntity has returned while the refresh it scheduled has not run and
\* the summary collection holds nothing for the user
C16_Witness ==
    /\ lastOp.op = "deleteEntity"
    /\ calls[lastOp.userId] = Idle
    /\ Len(immediates) > 0
    /\ immediates[Len(immediates)] = lastOp.userId
    /\ \A d \in index : d.userId # lastOp.userId

\* A refresh ended in an error
RefreshFailures == {"generateSummary.failed", "updateSummaryIndex.failed"}

\* C17: a failure of the summary refresh changes no entity and no relation
\* and disturbs no operation: the write that scheduled it has returned, and
\* what it stored stays.
C17_RefreshFailureIsSwallowed ==
    [][lastOp'.op \in RefreshFailures =>
          /\ entities' = entities
          /\ relations' = relations
          /\ calls' = calls
          /\ index' = index]_vars

\* The refresh scheduled by a returned saveEntity has failed while a
\* deleteEntity of the user is between its two store calls: the entity the
\* write stored for the other id is there, and no summary
C17_Witness ==
    /\ lastOp.op \in RefreshFailures
    /\ calls[lastOp.userId].op = "deleteEntity"
    /\ countEntities(lastOp.userId) > 0
    /\ \A d \in index : d.userId # lastOp.userId

\* C18: getUserSummary(u) returns the stored summary of u when there is
\* one, else the counts, types and recent ids of the entities and relations
\* of u now stored, and writes nothing.
C18_GetUserSummaryReadsOnly ==
    [][lastOp'.op = "getUserSummary" =>
          LET u == lastOp'.userId
              got == Get(lastOp'.result)
              stored == {d \in index : d.userId = u}
              mine == {d \in entities : d.userId = u}
          IN /\ index' = index
             /\ entities' = entities
             /\ relations' = relations
             /\ immediates' = immediates
             /\ refreshes' = refreshes
             /\ IF stored # {}
                THEN \E d \in stored :
                        /\ got.totalEntities = d.summary.totalEntities
                        /\ got.totalRelations = d.summary.totalRelations
                        /\ got.entityTypes = d.summary.entityTypes
                        /\ got.recentEntities = d.recentEntities
                        /\ got.searchIndex = d.searchIndex
                        /\ got.updatedAt = d.updatedAt
                ELSE /\ got.totalEntities = countEntities(u)
                     /\ got.totalRelations = countRelations(u)
                     /\ DOMAIN got.entityTypes = {d.entityType : d \in mine}
                     /\ \A t \in DOMAIN got.entityTypes :
                           got.entityTypes[t] =
                               Cardinality({d \in mine : d.entityType = t})
                     /\ Range(got.recentEntities) = {d.entityId : d \in mine}
                     /\ Len(got.recentEntities) = Cardinality(mine)]_vars

\* getUserSummary has returned a stored summary that is behind the store
C18_Witness ==
    /\ lastOp.op = "getUserSummary"
    /\ \E d \in index : d.userId = lastOp.userId
    /\ Get(lastOp.result).totalEntities # countEntities(lastOp.userId)

\* C19: when clearForUser(u) has returned, u has invoked nothing since and
\* no refresh of u is scheduled or running any more, the store holds no
\* entity, no relation and no summary record of u.
C19_ClearIsPermanent ==
    \A u \in cleared :
        converged(u) =>
            /\ \A d \in entities : d.userId # u
            /\ \A d \in relations : d.userId # u
            /\ \A d \in index : d.userId # u

----------------------------------------------------------------------------
(* Claims on the connection *)

\* C20: whatever the number of callers of connect() on a storage that is
\* not connected, client.connect() is called at most once and
\* createIndexes() is called at most once.
C20_ConnectOnce ==
    /\ connects.clientConnect <= 1
    /\ connects.createIndexes <= 1

----------------------------------------------------------------------------
(* Claims on the retries of connect() *)

\* The callers of PaginatedGraphStorage.connect() that have entered it
entered == {c \in Callers : connects.pc[c] # "idle"}

\* C21: a connect() call makes at most maxRetries connection attempts (one,
\* in the paginated storage); it returns normally only when the instance is
\* connected, and throws after its last attempt failed, leaving the instance
\* not connected; the call that follows a call that threw starts with no
\* retry counted and no attempt made.
C21_BoundedRetries ==
    /\ [](/\ mongoConnect.attempts <= maxRetries
          /\ mongoConnect.pc = "thrown" =>
                /\ mongoConnect.attempts = maxRetries
                /\ ~mongoIsConnected
          /\ mongoConnect.pc = "returned" => mongoIsConnected
          /\ connects.clientConnect <= Cardinality(entered)
          /\ \A c \in Callers : connects.pc[c] = "done" => isConnected)
    /\ [][/\ (mongoConnect.pc = "idle" /\ mongoConnect'.pc # "idle") =>
                /\ mongoConnect'.retries = 0
                /\ mongoConnect'.attempts = 0
                /\ mongoConnect'.pc = "returned" <=> mongoIsConnected
          /\ \A c \in Callers :
                (connects.pc[c] # "failed" /\ connects'.pc[c] = "failed") =>
                    isConnected' = isConnected]_vars

\* A call threw after maxRetries attempts, and a later call has connected
\* the instance with its last attempt; a paginated caller failed and a later
\* one connected.
C21_Witness ==
    /\ mongoConnect.failed
    /\ mongoConnect.pc = "returned"
    /\ mongoConnect.attempts = maxRetries
    /\ mongoIsConnected
    /\ \E c, later \in Callers :
          connects.pc[c] = "failed" /\ connects.pc[later] = "done"

----------------------------------------------------------------------------
(* Claims on the batch save, on deleteRelation and on the failures *)

\* The last entity of the array es with the id entityId
lastOf(es, entityId) ==
    es[CHOOSE i \in 1..Len(es) :
          /\ es[i].entityId = entityId
          /\ \A j \in 1..Len(es) : es[j].entityId = entityId => j <= i]

\* C22: saveEntitiesBatch(u, []) changes no collection and schedules no
\* summary refresh; saveEntitiesBatch(u, es) with at least one entity leaves
\* exactly one document of u for every entityId of es, which holds the last
\* entity of es with that id, changes no other document and schedules exactly
\* one summary refresh.
C22_BatchFrame ==
    [][lastOp'.op = "saveEntitiesBatch" =>
          LET u == lastOp'.userId
              es == lastOp'.entities
              ids == {es[i].entityId : i \in 1..Len(es)}
              others(coll) == {d \in coll : ~(d.userId = u /\ d.entityId \in ids)}
          IN /\ relations' = relations
             /\ index' = index
             /\ refreshes' = refreshes
             /\ IF Len(es) = 0
                THEN entities' = entities /\ immediates' = immediates
                ELSE /\ immediates' = Append(immediates, u)
                     /\ others(entities') = others(entities)
                     /\ \A id \in ids :
                           \E d \in entities' :
                               /\ {x \in entities' : x.userId = u /\ x.entityId = id}
                                      = {d}
                               /\ d.name = lastOf(es, id).name
                               /\ d.entityType = lastOf(es, id).entityType
                               /\ d.observations = lastOf(es, id).observations
                               /\ d.metadata.updatedAt = lastOp'.now]_vars

\* After an empty batch, a batch of two entities of different ids has
\* returned: both are stored and one refresh is scheduled.
C22_Witness ==
    /\ lastOp.op = "saveEntitiesBatch"
    /\ nOps = 2
    /\ Len(lastOp.entities) = 2
    /\ lastOp.entities[1].entityId # lastOp.entities[2].entityId
    /\ Cardinality(entities) = 2
    /\ immediates = <<"u1">>

\* C23: deleteRelation(u, from, to) changes no entity and no summary record;
\* the relations it removes are relations of u with exactly the ordered pair
\* (from, to), at most one, and one when such a relation is stored; every
\* other relation, the reverse edge included, stays as it is.
C23_DeleteRelationFrame ==
    [][lastOp'.op = "deleteRelation" =>
          LET u == lastOp'.userId
              from == Get(lastOp'.relation).fromEntityId
              to == Get(lastOp'.relation).toEntityId
              matching == {d \in relations :
                             /\ d.userId = u
                             /\ d.fromEntityId = from
                             /\ d.toEntityId = to}
              removed == relations \ relations'
          IN /\ entities' = entities
             /\ index' = index
             /\ relations' \subseteq relations
             /\ removed \subseteq matching
             /\ Cardinality(removed) = IF matching = {} THEN 0 ELSE 1]_vars

\* deleteRelation has removed the edge of a pair whose reverse edge is still
\* stored for the same user
C23_Witness ==
    /\ lastOp.op = "deleteRelation"
    /\ lastOp.deleted = 1
    /\ Get(lastOp.relation).fromEntityId # Get(lastOp.relation).toEntityId
    /\ \E d \in relations :
          /\ d.userId = lastOp.userId
          /\ d.fromEntityId = Get(lastOp.relation).toEntityId
          /\ d.toEntityId = Get(lastOp.relation).fromEntityId

\* C24: when deleteEntity(u, E) returns to its caller while relations of u
\* that touch E are still stored, it returns with the failure of the
\* cascade; the step in which it returns restores no entity and stores no
\* relation, so that the entity stays deleted and the relations the cascade
\* did not remove stay stored.
C24_CascadeFailureReported ==
    [][\A u \in Users :
          (calls[u].op = "deleteEntity" /\ calls'[u].op # "deleteEntity") =>
              LET left == {d \in relations' :
                             touches(d, {calls[u].entityId}) /\ d.userId = u}
              IN /\ entities' = entities
                 /\ relations' \subseteq relations
                 /\ left # {} => lastOp'.op = "deleteEntity.failed"
                 /\ lastOp'.op = "deleteEntity.failed" =>
                        /\ lastOp'.userId = u
                        /\ relations \ relations' \subseteq
                              {d \in relations :
                                 touches(d, {calls[u].entityId}) /\ d.userId = u}]_vars

\* The cascade of deleteEntity has failed after the removal of one relation:
\* the entity is not stored, and a relation that touches it still is.
C24_Witness ==
    /\ lastOp.op = "deleteEntity.failed"
    /\ lastOp.deleted = 1
    /\ entityDocs(lastOp.userId, lastOp.entityId) = {}
    /\ \E d \in relations :
          d.userId = lastOp.userId /\ touches(d, {lastOp.entityId})
    /\ \E d \in entities : d.userId = lastOp.userId

\* An entity without entityId or without name
malformed(entity) == Len(entity.entityId) = 0 \/ Len(entity.name) = 0

\* C25: a saveEntity or saveEntitiesBatch call that is passed a malformed
\* entity leaves the entity collection unchanged.
C25_MalformedRejected ==
    [][(/\ lastOp'.op \in {"saveEntity", "saveEntitiesBatch"}
        /\ \E i \in 1..Len(lastOp'.entities) : malformed(lastOp'.entities[i]))
          => entities' = entities]_vars

----------------------------------------------------------------------------
(* Claims on the users *)

\* The users with at least one stored entity
usersWithEntities == {u \in Users : \E d \in entities : d.userId = u}

\* C26: listUsers() returns exactly the users with at least one stored
\* entity, and existsForUser(u) tells whether u is one of them: a user with
\* relations only, or with a summary record only, is neither listed nor
\* reported as existing.
C26_ListedIffExists ==
    /\ lastOp.op = "listUsers" => Get(lastOp.result) = usersWithEntities
    /\ lastOp.op = "existsForUser" =>
          Get(lastOp.result) = (lastOp.userId \in usersWithEntities)
    /\ \A u \in Users : u \in listUsers(entities) <=> existsForUser(entities, u)

\* listUsers() has returned the other tenant alone while u1 has a relation
\* and a summary record, and no entity
C26_Witness ==
    /\ lastOp.op = "listUsers"
    /\ Get(lastOp.result) = {"u2"}
    /\ \E d \in relations : d.userId = "u1"
    /\ \E d \in index : d.userId = "u1"
    /\ Quiet

----------------------------------------------------------------------------
(* Claims on the flat storages *)

\* C27: in both flat storages, loadForUser(u) after a completed
\* saveForUser(u, d), with no save or clear of u begun since, returns d.
C27_FlatRoundTrip ==
    /\ (flatOp.op = "json.loadForUser" /\ IsSome(saved.json[flatOp.userId]))
          => Get(flatOp.result) = Get(saved.json[flatOp.userId])
    /\ (flatOp.op = "mongo.loadForUser" /\ IsSome(saved.mongo[flatOp.userId]))
          => Get(flatOp.result) = Get(saved.mongo[flatOp.userId])

\* The data file of a user is absent, or holds the whole text of before
\* the saveForUser call in progress or last returned, or the whole text the
\* call writes
previousOrNew(userId) ==
    /\ jsonCalls[userId].pc # "idle" =>
          files[userId].data
              \in {Absent, jsonCalls[userId].before, Some(jsonContent(userId))}
    /\ (flatOp.op = "json.saveForUser" /\ flatOp.userId = userId
        /\ jsonCalls[userId].pc = "idle") =>
          files[userId].data
              \in {Absent, flatOp.before,
                   Some(stringify(documentData(userId, Get(flatOp.data), clock)))}

\* A saveForUser call has failed
saveFailed == flatOp.op = "json.saveForUser" /\ flatOp.thrown

cannotBeRead(userId, key) ==
    LET document == findOne(collection, userId)
    IN /\ IsSome(document)
       /\ Get(document).isEncrypted
       /\ LET text == decrypt(Get(Get(document).encryptedData), key)
          IN ~IsSome(text) \/ ~IsSome(parse(Get(text)))

\* C29: loadDecrypted(u, k) after a completed saveEncrypted(u, d, k), with
\* no saveForUser, saveEncrypted or clearForUser of u since, returns d;
\* loadDecrypted never raises, returns the default data for a record that
\* cannot be decrypted or parsed, and leaves the collection unchanged.
C29_EncryptedRoundTrip ==
    /\ [](flatOp.op = "loadDecrypted" =>
            LET s == saved.encrypted[flatOp.userId]
            IN /\ ~flatOp.thrown
               /\ IsSome(flatOp.result)
               /\ (IsSome(s) /\ Get(s).key = flatOp.key) =>
                      Get(flatOp.result) = Get(s).data
               /\ cannotBeRead(flatOp.userId, flatOp.key) =>
                      Get(flatOp.result) = defaultData)
    /\ [][flatOp'.op = "loadDecrypted" => collection' = collection]_vars

\* loadDecrypted with a key of the caller's has returned the falsy value
\* saveEncrypted stored under that key
C29_Witness ==
    /\ flatOp.op = "loadDecrypted"
    /\ flatOp.key = Some("k1")
    /\ saved.encrypted[flatOp.userId] =
          Some([data |-> jsNumber(0), key |-> Some("k1")])
    /\ Get(flatOp.result) = jsNumber(0)

----------------------------------------------------------------------------
(* Claims on the factory *)

UriNames == EnvNames \ {"MCP_STORAGE_TYPE"}

\* The connection string the MongoDB storage would be created with is one
\* its constructor throws on
creationThrows(e) ==
    \E name \in UriNames : IsSome(e[name]) /\ ~validUri(Get(e[name]))

\* C30: createAutoDetected returns a MongoDB-backed storage whenever one of
\* MONGODB_CONNECTION_STRING, MCP_MONGODB_URI and MONGO_URI is set, whatever
\* the other variables are, and a JSON storage only when none of them is set
\* or the creation of the MongoDB storage throws.
C30_MongoWhenUriSet ==
    IsSome(storage) =>
        LET e == Get(storage).env
            set == {name \in UriNames : IsSome(e[name]) /\ Get(e[name]) # ""}
        IN /\ (set # {} /\ ~creationThrows(e)) => Get(storage).type = "mongodb"
           /\ Get(storage).type = "json" => (set = {} \/ creationThrows(e))

----------------------------------------------------------------------------
(* Claims on cleanup() *)

\* The relation document d has an end that is no stored entity of its user
orphaned(d) ==
    \/ entityDocs(d.userId, d.fromEntityId) = {}
    \/ entityDocs(d.userId, d.toEntityId) = {}

\* C31: when cleanup() has completed with no operation running beside it, no
\* orphaned relation remains: both ends of every stored relation of a user
\* are stored entities of that same user.
C31_NoOrphanAfterCleanup ==
    lastOp.op = "cleanup" => \A d \in relations : ~orphaned(d)

----------------------------------------------------------------------------
(* Claims on the order of the steps of deleteEntity *)

\* The relations of a user that touch an entity id
touching(userId, entityId) ==
    {d \in relations : touchesFilter(userId, entityId, d)}

\* C32: deleteEntity(u, E) removes the entity document, then the relations
\* of u touching E, then schedules the summary refresh: the step that
\* removes the entity leaves the relations alone and schedules nothing, and
\* the refresh of the call is scheduled in the step that has removed the
\* relations, so that it reads the store after both removals.  (The state
\* between the two removals, which a concurrent reader can see, is the
\* witness.)
C32_DeleteEntityOrder ==
    [][\A u \in Users :
          /\ (calls[u].op # "deleteEntity" /\ calls'[u].op = "deleteEntity") =>
                /\ {d \in entities' : d.userId = u
                                        /\ d.entityId = calls'[u].entityId} = {}
                /\ relations' = relations
                /\ immediates' = immediates
                /\ refreshes' = refreshes
          /\ (calls[u].op = "deleteEntity" /\ calls'[u].op # "deleteEntity") =>
                /\ lastOp'.op = "deleteEntity" /\ lastOp'.userId = u
                /\ entities' = entities
                /\ relations' = relations \ touching(u, calls[u].entityId)
                /\ immediates' = Append(immediates, u)
                /\ refreshes' = refreshes]_vars

C32_Witness ==
    \E u \in Users :
        /\ calls[u].op = "deleteEntity"
        /\ lastOp.op = "deleteEntity.deleteOne"
        /\ entityDocs(u, calls[u].entityId) = {}
        /\ touching(u, calls[u].entityId) # {}
        /\ Len(immediates) > 0

----------------------------------------------------------------------------
(* Claims on loadForUser and clearForUser of the files *)

\* The data a file holds: the data property of the document saveForUser
\* writes, or the whole value of a file of the legacy format; Absent when
\* the file cannot be read or does not parse
contentOf(content) ==
    IF ~IsSome(content) \/ ~IsSome(parse(Get(content))) THEN Absent
    ELSE LET document == Get(parse(Get(content)))
         IN IF IsSome(getProperty(document, "data"))
            THEN getProperty(document, "data")
            ELSE Some(document)

\* What loadForUser is to return on the files of a user
expectedLoad(userId) ==
    LET main == contentOf(files[userId].data)
        backup == contentOf(files[userId].backup)
    IN IF IsSome(main) THEN Get(main)
       ELSE IF backupEnabled /\ IsSome(backup) THEN Get(backup)
       ELSE defaultData

\* C33: loadForUser(u) never raises and returns the content of the data
\* file when it can be read and parses, otherwise that of the backup file
\* when backups are enabled and it can be read, otherwise the default data;
\* after clearForUser(u) has returned, loadForUser(u) returns the default
\* data and existsForUser(u) is false, whether or not there was a backup.
C33_LoadNeverRaises ==
    /\ [](flatOp.op = "json.loadForUser" =>
            /\ ~flatOp.thrown
            /\ flatOp.result = Some(expectedLoad(flatOp.userId)))
    /\ [][(flatOp.op = "json.clearForUser" /\ flatOp'.userId = flatOp.userId) =>
            /\ flatOp'.op = "json.loadForUser" =>
                  flatOp'.result = Some(defaultData)
            /\ flatOp'.op = "json.existsForUser" =>
                  flatOp'.result = Some(jsBoolean(FALSE))]_vars

----------------------------------------------------------------------------
(* Claims on the lists getConnectedEntities returns *)

\* No element of the sequence s is at two positions
noDuplicate(s) == \A i, j \in 1..Len(s) : i # j => s[i] # s[j]

\* C34: on a store that does not change during the call, the result of
\* getConnectedEntities(u, X, d) holds no entity twice in its entity list
\* and no stored relation twice in its relation list, whatever the depth.
C34_NoDuplicates ==
    queried => /\ noDuplicate(queryResult.entities)
               /\ noDuplicate(queryResult.relations)

----------------------------------------------------------------------------
(* Claims on saveForUser of the graph storage *)

\* C35: saveForUser(u, g) only adds or overwrites.  Its save of the
\* entities of g leaves every entity document whose entityId is not in g as
\* it is and changes no relation, so that loadForUser(u) returns the
\* entities of u stored before with an entityId not in g and one entity for
\* every entityId of g; each saveRelation of its loop changes no entity,
\* leaves every relation of u of another ordered pair as it is and stores a
\* relation of u for its pair.
C35_SaveForUserOnlyAdds ==
    [][\A u \in Users :
          /\ (calls[u].op # "saveForUser" /\ lastOp'.op = "saveEntitiesBatch"
                /\ lastOp'.userId = u) =>
                LET es == lastOp'.entities
                    ids == {es[i].entityId : i \in 1..Len(es)}
                    before == {d \in entities : d.userId = u /\ d.entityId \notin ids}
                    loaded == Range(loadForUser(entities', relations', u).entities)
                IN /\ relations' = relations
                   /\ before \subseteq entities'
                   /\ {documentToEntity(d) : d \in before} \subseteq loaded
                   /\ {e.entityId : e \in loaded} =
                          ids \cup {d.entityId : d \in before}
                   /\ {d \in entities : d.userId # u}
                          = {d \in entities' : d.userId # u}
          /\ (calls[u].op = "saveForUser" /\ lastOp'.op = "saveRelation"
                /\ lastOp'.userId = u) =>
                LET r == Get(lastOp'.relation)
                    others(coll) ==
                        {d \in coll : /\ d.userId = u
                                      /\ ~(/\ d.fromEntityId = r.fromEntityId
                                           /\ d.toEntityId = r.toEntityId)}
                IN /\ entities' = entities
                   /\ others(relations') = others(relations)
                   /\ \E d \in relations' :
                         /\ d.userId = u
                         /\ d.fromEntityId = r.fromEntityId
                         /\ d.toEntityId = r.toEntityId]_vars

\* saveForUser(u, g) has saved the entities of a graph g of one entity and
\* one relation while u stores an entity of another id, changed since
C35_Witness ==
    \E u \in Users :
        /\ calls[u].op = "saveForUser"
        /\ lastOp.op = "saveEntitiesBatch" /\ lastOp.userId = u
        /\ Len(lastOp.entities) = 1
        /\ \E d \in entities :
              /\ d.userId = u
              /\ d.entityId # lastOp.entities[1].entityId
              /\ d.metadata.source = Some("import")

----------------------------------------------------------------------------
(* Claims on connect() and maxRetries *)

\* C36: MongodbUserStorage.connect() returns normally only when the
\* instance is connected, whatever maxRetries is (0, a negative number and
\* a value that is no number included): a call ends with the connection
\* established or with an error.
C36_ConnectedOrThrown ==
    (flatOp.op = "connect.done" /\ ~flatOp.thrown) => mongoIsConnected

----------------------------------------------------------------------------
(* Claims on the consistency of a summary *)

\* The sum of the counts of the entity types
RECURSIVE sumOfCounts(_)
sumOfCounts(entityTypes) ==
    IF DOMAIN entityTypes = {} THEN 0
    ELSE LET t == CHOOSE x \in DOMAIN entityTypes : TRUE
         IN entityTypes[t]
            + sumOfCounts([x \in (DOMAIN entityTypes) \ {t} |-> entityTypes[x]])

\* C37: in every summary a refresh stores and in every summary
\* getUserSummary returns, the counts of entityTypes add up to
\* totalEntities, also when entities of the user are saved or deleted while
\* the summary is computed.
C37_SummaryConsistent ==
    /\ \A d \in index :
          sumOfCounts(d.summary.entityTypes) = d.summary.totalEntities
    /\ lastOp.op = "getUserSummary" =>
          sumOfCounts(Get(lastOp.result).entityTypes) =
              Get(lastOp.result).totalEntities

----------------------------------------------------------------------------
(* Claims on two saveForUser calls of one user *)

\* C38: when two saveForUser calls for the same user run at the same time,
\* the rename of a call makes the data file hold the data of that call, a
\* call that raises an error has not made the data file hold its data, and
\* no call removes a temp file the other call has written.
C38_OwnTempFile ==
    [][\A c \in JsonCallers :
          flatOp'.userId = c =>
             LET u == userOf(c)
                 own == Some(textOf(c))
             IN /\ (flatOp'.op = "json.saveForUser.rename" /\ ~flatOp'.thrown) =>
                      (files[u].temp = own /\ files'[u].data = own)
                /\ (flatOp'.op = "json.saveForUser" /\ flatOp'.thrown) =>
                      /\ (files'[u].data # own \/ jsonCalls[c].before = own)
                      /\ flatOp'.cleanup = "removed" => files[u].temp = own]_vars

----------------------------------------------------------------------------
(* Claims on validateConfig *)

\* The errors createUserStorage throws for a configuration it rejects
ConfigurationErrors ==
    {"no JSON configuration", "no MongoDB configuration", "no configuration",
     "only KnowledgeGraph", "Unknown storage type"}

\* C39: validateConfig agrees with the factory: when validateConfig(c)
\* returns true, createUserStorage(c, {entities: [], relations: []}) throws
\* no configuration error.
C39_ValidatedConfigCreates ==
    [][(/\ flatOp.op = "validateConfig"
        /\ flatOp.result = Some(TRUE)
        /\ flatOp'.op = "createUserStorage"
        /\ flatOp'.data = flatOp.data)
          => Get(flatOp'.result).thrown \notin ConfigurationErrors]_vars

----------------------------------------------------------------------------
(* Claims on the indexes *)

\* The calls of createIndexes() that have resolved: createIndexes() catches
\* what createIndex rejects with, so every call that is not in progress
\* has resolved
createIndexesFinished ==
    connects.createIndexes -
        Cardinality({c \in Callers : connects.pc[c] = "createIndexes"})

\* C40: no operation reads or writes a collection before the indexes are
\* created: whenever connect() has returned to an operation, which then
\* issues its first read or write, a call of createIndexes() has resolved;
\* this for every interleaving of the callers of connect().
C40_IndexesBeforeOperation ==
    \A c \in Callers :
        connects.pc[c] = "done" => createIndexesFinished >= 1

====
